---- MODULE Spec2Model ----
(***************************************************************************)
(* A model of the financial metrics engine of financial-report-analyzer:   *)
(* series construction (series_utils.py), field resolution, statement      *)
(* extraction and growth / TTM metrics (analyze.py), with the data-quality *)
(* telemetry of logging_config.py.                                         *)
(*                                                                         *)
(* Python values are tagged records.  A float is Fin(n), NaN or Inf(s); a  *)
(* datetime is Dt(ts) with ts counted in clock ticks, TodPerDay ticks to a *)
(* calendar day; None is None.  A polars frame of (date, value) rows is a  *)
(* sequence of records [date, value].                                      *)
(***************************************************************************)
EXTENDS Integers, Sequences, FiniteSets, TLC

VARIABLES
    op,     \* the operation that produced ret ("input": nothing ran yet)
    arg,    \* the input the operations are applied to
    ret,    \* what the last operation returned
    data_quality_logger,  \* analyze.data_quality_logger: "None" or "configured"
    fuzzy_matches,        \* DataQualityLogger.fuzzy_matches
    missing_fields,       \* DataQualityLogger.missing_fields
    results,              \* FinancialValidator.results
    validation_warnings,  \* DataQualityLogger.validation_warnings
    held_summary,  \* the dict the latest DataQualityLogger.get_summary call returned
    files,    \* the file system: what each path of a run_report run holds
    now,      \* the clock of the file system, in ticks of its mtime granularity
    fetches   \* calls of fetch_data.fetch_data made so far

vars ==
    <<op, arg, ret, data_quality_logger, fuzzy_matches, missing_fields, results,
      validation_warnings, held_summary, files, now, fetches>>

(***************************************************************************)
(* Bounds of the model.                                                    *)
(***************************************************************************)
\* clock ticks in a calendar day (granularity of the time of day)
TodPerDay == 2
\* calendar days a raw date can name
MaxDay == 2
\* entries of a raw mapping / rows of a row list
MaxLen == 2

(***************************************************************************)
(* Python values.                                                          *)
(***************************************************************************)
None == [k |-> "none", v |-> 0]
Fin(n) == [k |-> "fin", v |-> n]
NaN == [k |-> "nan", v |-> 0]
Inf(s) == [k |-> "inf", v |-> s]
Dt(ts) == [k |-> "dt", v |-> ts]

is_finite(x) == x.k = "fin"

\* A scalar of a payload (a JSON value or a dict key): t and n say which
\* branch of to_float it takes and the number it carries; fmt, day, tod and
\* off say how parse_datetime reads it; text is its spelling as a label.
Scalar(t, n, fmt, day, tod, off, text) ==
    [t |-> t, n |-> n, fmt |-> fmt, day |-> day, tod |-> tod, off |-> off,
     text |-> text]
NotText(t, n) == Scalar(t, n, "not_str", 0, 0, 0, <<>>)

PyNone == Scalar("NoneType", 0, "none", 0, 0, 0, <<>>)
PyBool(n) == NotText("bool", n)
PyInt(n) == NotText("int", n)
PyFloat(n) == NotText("float", n)
PyFloatNaN == NotText("float_nan", 0)
PyFloatInf(s) == NotText("float_inf", s)
PyOther == NotText("list", 0)
\* "1,000"-style text of the number n; the text "inf" or "-inf"; the text
\* "nan"; text that is blank once commas and spaces are gone; text that
\* neither float() nor any date format accepts
PyStrNum(n) == Scalar("str_num", n, "junk", 0, 0, 0, <<>>)
PyStrInf(s) == Scalar("str_inf", s, "junk", 0, 0, 0, <<>>)
PyStrNaN == Scalar("str_nan", 0, "junk", 0, 0, 0, <<>>)
PyStrBlank == Scalar("str_blank", 0, "blank", 0, 0, 0, <<>>)
PyStrJunk == Scalar("str_junk", 0, "junk", 0, 0, 0, <<>>)
\* a label such as "Total Revenue": text that is neither a number nor a date
Label(text) == Scalar("str_junk", 0, "junk", 0, 0, 0, text)

to_float(value) ==
    CASE value.t = "NoneType" -> None
      [] value.t = "bool" -> Fin(value.n)
      [] value.t \in {"int", "float"} -> Fin(value.n)
      [] value.t = "float_nan" -> None
      [] value.t = "float_inf" -> Inf(value.n)
      [] value.t = "str_blank" -> None
      [] value.t = "str_num" -> Fin(value.n)
      [] value.t = "str_inf" -> Inf(value.n)
      [] value.t = "str_nan" -> NaN
      [] value.t = "str_junk" -> None
      [] OTHER -> None

\* Date text.  fmt "iso" is text datetime.fromisoformat accepts (YYYY-MM-DD,
\* optionally with a time and a UTC offset of off ticks); "slash" is
\* YYYY/MM/DD (optionally with a time), which only strptime accepts.  Such
\* text is no number: float() rejects it.
RawDate(fmt, day, tod, off) == Scalar("str_junk", 0, fmt, day, tod, off, <<>>)
NoDate == PyNone
JunkDate == PyStrJunk
BlankDate == PyStrBlank

parse_datetime(value) ==
    CASE value.fmt = "none" -> None
      [] value.fmt = "not_str" -> None
      [] value.fmt = "blank" -> None
      [] value.fmt = "iso" -> Dt(value.day * TodPerDay + value.tod - value.off)
      [] value.fmt = "slash" -> Dt(value.day * TodPerDay + value.tod)
      [] OTHER -> None

\* datetime.date().isoformat(): the calendar day of a timestamp
date_iso(ts) == ts \div TodPerDay

\* The paths a run_report run touches, and what a path holds: whether it
\* exists, its st_mtime, the position of its latest write among all writes
\* (seq), and the fetch its content derives from (content).
Paths ==
    {"logs", "log_file", "output_dir", "data", "analysis", "valuation", "analyst",
     "charts", "report"}
Absent == [exists |-> FALSE, mtime |-> 0, seq |-> 0, content |-> 0]
NoFiles == [p \in Paths |-> Absent]

(***************************************************************************)
(* Frames.                                                                 *)
(***************************************************************************)
Row(d, x) == [date |-> d, value |-> x]

empty_series == <<>>

RECURSIVE drop_nulls(_)
drop_nulls(df) ==
    IF df = <<>> THEN <<>>
    ELSE IF Head(df).value.k = "none" \/ Head(df).date.k = "none"
         THEN drop_nulls(Tail(df))
         ELSE <<Head(df)>> \o drop_nulls(Tail(df))

Remove(df, i) == SubSeq(df, 1, i - 1) \o SubSeq(df, i + 1, Len(df))

IsSortedByDate(df) ==
    \A i \in 1..(Len(df) - 1) : df[i].date.v <= df[i + 1].date.v

\* DataFrame.sort("date") with maintain_order left False: the rows in
\* non-decreasing date order, rows of equal date in an unspecified order.
RECURSIVE sort_by_date(_)
sort_by_date(df) ==
    IF df = <<>> THEN {<<>>}
    ELSE LET earliest == {i \in DOMAIN df :
                             \A j \in DOMAIN df : df[i].date.v <= df[j].date.v}
         IN  UNION {{<<df[i]>> \o rest : rest \in sort_by_date(Remove(df, i))} :
                    i \in earliest}

RECURSIVE mapping_rows(_)
mapping_rows(items) ==
    IF items = <<>> THEN <<>>
    ELSE LET parsed == parse_datetime(Head(items).key)
         IN  IF parsed = None THEN mapping_rows(Tail(items))
             ELSE <<Row(parsed, to_float(Head(items).value))>>
                      \o mapping_rows(Tail(items))

\* The frames series_from_mapping may return for a mapping given as its
\* items in insertion order.
series_from_mapping(mapping) ==
    IF mapping = <<>> THEN {empty_series}
    ELSE LET rows == mapping_rows(mapping)
         IN  IF rows = <<>> THEN {empty_series}
             ELSE sort_by_date(drop_nulls(rows))

\* dict.get(key) on a dict given as its items in insertion order
get(items, key) ==
    IF \E i \in DOMAIN items : items[i].key = key
    THEN items[CHOOSE i \in DOMAIN items : items[i].key = key].value
    ELSE PyNone

\* the (date, value) tuples series_from_rows collects from a list of row dicts
row_tuples(rows, date_key, value_key) ==
    mapping_rows([i \in DOMAIN rows |->
                     [key |-> get(rows[i], date_key),
                      value |-> get(rows[i], value_key)]])

series_from_rows(rows, date_key, value_key) ==
    LET series_rows_ == row_tuples(rows, date_key, value_key)
    IN  IF series_rows_ = <<>> THEN {empty_series}
        ELSE sort_by_date(drop_nulls(series_rows_))

(***************************************************************************)
(* Series construction: inputs and operations.                             *)
(***************************************************************************)
Item(key, value) == [key |-> key, value |-> value]

RawDates ==
    {RawDate(f, d, t, 0) : f \in {"iso", "slash"}, d \in 1..MaxDay,
                           t \in 0..(TodPerDay - 1)}
        \cup {RawDate("iso", d, 0, 1) : d \in 1..MaxDay}
        \cup {JunkDate, BlankDate}

RawValues ==
    {PyNone, PyBool(1), PyInt(1), PyFloat(2), PyFloatNaN, PyFloatInf(1),
     PyStrNum(2), PyStrInf(-1), PyStrNaN, PyStrBlank, PyStrJunk, PyOther}

SeqsUpTo(S, n) == UNION {[1..m -> S] : m \in 0..n}

\* dict keys are distinct
IsMapping(items) ==
    \A i, j \in 1..Len(items) : items[i].key = items[j].key => i = j

Mappings ==
    {m \in SeqsUpTo({Item(k, x) : k \in RawDates, x \in RawValues}, MaxLen) :
        IsMapping(m)}

RowLists ==
    SeqsUpTo({Item(k, x) : k \in RawDates \cup {NoDate}, x \in RawValues}, MaxLen)

\* the two columns of the row dicts handed to series_from_rows
DateColumn == Label(<<"d">>)
ValueColumn == Label(<<"v">>)
AsRowDicts(items) ==
    [i \in DOMAIN items |->
        <<[key |-> DateColumn, value |-> items[i].key],
          [key |-> ValueColumn, value |-> items[i].value]>>]

\* State of a module whose logger is not configured; no validator has run
TelemetryIdle ==
    /\ data_quality_logger = "None"
    /\ fuzzy_matches = <<>>
    /\ missing_fields = <<>>
    /\ results = <<>>
    /\ validation_warnings = <<>>
    /\ held_summary = None
    /\ files = NoFiles
    /\ now = 0
    /\ fetches = 0

InitSeries ==
    /\ op = "input"
    /\ \/ arg \in {[kind |-> "mapping", items |-> m] : m \in Mappings}
       \/ arg \in {[kind |-> "rows", items |-> r] : r \in RowLists}
    /\ ret = <<>>
    /\ TelemetryIdle

SeriesFromMapping ==
    /\ arg.kind = "mapping"
    /\ \E df \in series_from_mapping(arg.items) : ret' = df
    /\ op' = "series_from_mapping"
    /\ UNCHANGED <<arg, data_quality_logger, fuzzy_matches, missing_fields, results,
                 validation_warnings, held_summary, files, now, fetches>>

SeriesFromRows ==
    /\ arg.kind = "rows"
    /\ \E df \in series_from_rows(AsRowDicts(arg.items), DateColumn, ValueColumn) :
           ret' = df
    /\ op' = "series_from_rows"
    /\ UNCHANGED <<arg, data_quality_logger, fuzzy_matches, missing_fields, results,
                 validation_warnings, held_summary, files, now, fetches>>

NextSeries == SeriesFromMapping \/ SeriesFromRows

SpecSeries == InitSeries /\ [][NextSeries]_vars

Constructed == op \in {"series_from_mapping", "series_from_rows"}

\* the raw items whose date parses to the timestamp ts, by position
ItemsAt(ts) == {i \in 1..Len(arg.items) : parse_datetime(arg.items[i].key) = Dt(ts)}

\* C1: every constructed series has strictly increasing timestamps, and a
\* timestamp that several raw keys parse to keeps one point, carrying the
\* value of the key that came last in the input.
C1_StrictlyIncreasingLastWriteWins ==
    Constructed =>
        /\ \A i \in 1..(Len(ret) - 1) : ret[i].date.v < ret[i + 1].date.v
        /\ \A i \in 1..Len(ret) :
               LET last == CHOOSE j \in ItemsAt(ret[i].date.v) :
                               \A l \in ItemsAt(ret[i].date.v) : l <= j
               IN  ret[i].value = to_float(arg.items[last].value)

\* C2: no constructed series stores NaN, +Inf or -Inf: every stored value
\* is a finite float.
C2_OnlyFiniteStored ==
    Constructed => \A i \in 1..Len(ret) : is_finite(ret[i].value)

(***************************************************************************)
(* Field resolver (analyze.py).  A label is a sequence of one-character    *)
(* strings over a small alphabet of letters, a space and an underscore.    *)
(***************************************************************************)
\* keys quoted in a missing-field context
ContextKeys == 5
\* present keys handed to one resolution
MaxKeys == 2
\* candidate labels handed to one resolution
MaxCands == 2
\* resolutions run one after the other on a logger
MaxCalls == 2

Range(s) == {s[i] : i \in DOMAIN s}
Max(a, b) == IF a >= b THEN a ELSE b
Min(a, b) == IF a <= b THEN a ELSE b

\* str.isalnum and str.lower, one character at a time
isalnum(ch) == ch \in {"a", "b", "c", "e", "g", "o", "A", "B", "C", "E", "G", "O"}
lower_char(ch) ==
    CASE ch = "A" -> "a" [] ch = "B" -> "b" [] ch = "C" -> "c"
      [] ch = "E" -> "e" [] ch = "G" -> "g" [] ch = "O" -> "o" [] OTHER -> ch
lower(value) == [i \in DOMAIN value |-> lower_char(value[i])]

normalize_label(value) == lower(SelectSeq(value, isalnum))

\* the key a {f(key): key for key in keys_list} lookup holds under image:
\* a later key overwrites an earlier one with the same image
LastKeyWith(keys_list, f(_), image) ==
    keys_list[CHOOSE j \in DOMAIN keys_list :
                 /\ f(keys_list[j]) = image
                 /\ \A l \in DOMAIN keys_list : f(keys_list[l]) = image => l <= j]

\* the first candidate, in list order, that satisfies hit
FirstCandidate(candidates, hit(_)) ==
    candidates[CHOOSE i \in DOMAIN candidates :
                  /\ hit(candidates[i])
                  /\ \A l \in DOMAIN candidates : hit(candidates[l]) => i <= l]

Resolution(found, key, tier, log, entry) ==
    [found |-> found, key |-> key, tier |-> tier, log |-> log, entry |-> entry]

FuzzyEntry(field, matched, confidence) ==
    [field |-> field, matched |-> matched, confidence |-> confidence]
MissingEntry(field, context) == [field |-> field, context |-> context]
NoEntry == MissingEntry(<<>>, <<>>)
Unknown == <<"u", "n", "k", "n", "o", "w", "n">>

\* find_matching_key gone wrong: every tier is tried on one candidate before
\* the next candidate is looked at
find_matching_key_candidate_major(keys_list, candidates) ==
    LET exact(c) == c \in Range(keys_list)
        ci(c) == \E k \in Range(keys_list) : lower(k) = lower(c)
        nz(c) == \E k \in Range(keys_list) : normalize_label(k) = normalize_label(c)
    IN  IF \E c \in Range(candidates) : nz(c)
        THEN LET candidate == FirstCandidate(candidates, nz)
                 matched == LastKeyWith(keys_list, normalize_label,
                                        normalize_label(candidate))
             IN  IF exact(candidate)
                 THEN Resolution(TRUE, candidate, 1, "none", NoEntry)
                 ELSE IF ci(candidate)
                 THEN Resolution(TRUE, LastKeyWith(keys_list, lower, lower(candidate)),
                                 2, "none", NoEntry)
                 ELSE Resolution(TRUE, matched, 3, "fuzzy",
                          FuzzyEntry(candidate, matched,
                              [num |-> Len(normalize_label(candidate)),
                               den |-> Max(Len(candidate), Len(matched))]))
        ELSE Resolution(FALSE, <<>>, 0, "missing",
                        MissingEntry(candidates[1],
                                     SubSeq(keys_list, 1, Min(ContextKeys, Len(keys_list)))))

\* find_matching_key gone wrong: the confidence is taken against the
\* candidate's length alone
find_matching_key_candidate_length(keys_list, candidates) ==
    LET exact(c) == c \in Range(keys_list)
        ci(c) == \E k \in Range(keys_list) : lower(k) = lower(c)
        nz(c) == \E k \in Range(keys_list) : normalize_label(k) = normalize_label(c)
    IN  IF \E c \in Range(candidates) : exact(c)
        THEN Resolution(TRUE, FirstCandidate(candidates, exact), 1, "none", NoEntry)
        ELSE IF \E c \in Range(candidates) : ci(c)
        THEN Resolution(TRUE,
                        LastKeyWith(keys_list, lower,
                                    lower(FirstCandidate(candidates, ci))),
                        2, "none", NoEntry)
        ELSE IF \E c \in Range(candidates) : nz(c)
        THEN LET candidate == FirstCandidate(candidates, nz)
                 matched == LastKeyWith(keys_list, normalize_label,
                                        normalize_label(candidate))
             IN  Resolution(TRUE, matched, 3, "fuzzy",
                     FuzzyEntry(candidate, matched,
                         [num |-> Len(normalize_label(candidate)),
                          den |-> Len(candidate)]))
        ELSE Resolution(FALSE, <<>>, 0, "missing",
                        MissingEntry(candidates[1],
                                     SubSeq(keys_list, 1, Min(ContextKeys, Len(keys_list)))))

\* find_matching_key: the key returned (found = FALSE for None), the tier
\* that hit, and the telemetry entry it hands to the data-quality logger.
find_matching_key(keys_list, candidates) ==
    LET exact(c) == c \in Range(keys_list)
        ci(c) == \E k \in Range(keys_list) : lower(k) = lower(c)
        nz(c) == \E k \in Range(keys_list) : normalize_label(k) = normalize_label(c)
    IN  IF \E c \in Range(candidates) : exact(c)
        THEN Resolution(TRUE, FirstCandidate(candidates, exact), 1, "none", NoEntry)
        ELSE IF \E c \in Range(candidates) : ci(c)
        THEN LET candidate == FirstCandidate(candidates, ci)
             IN  Resolution(TRUE, LastKeyWith(keys_list, lower, lower(candidate)),
                            2, "none", NoEntry)
        ELSE IF \E c \in Range(candidates) : nz(c)
        THEN LET candidate == FirstCandidate(candidates, nz)
                 normalized == normalize_label(candidate)
                 matched == LastKeyWith(keys_list, normalize_label, normalized)
                 confidence == [num |-> Len(normalized),
                                den |-> Max(Len(candidate), Len(matched))]
             IN  Resolution(TRUE, matched, 3,
                            IF data_quality_logger # "None" THEN "fuzzy" ELSE "none",
                            FuzzyEntry(candidate, matched, confidence))
        ELSE Resolution(FALSE, <<>>, 0,
                        IF data_quality_logger # "None" THEN "missing" ELSE "none",
                        MissingEntry(IF candidates # <<>> THEN candidates[1] ELSE Unknown,
                                     SubSeq(keys_list, 1, Min(ContextKeys, Len(keys_list)))))

\* DataQualityLogger.log_fuzzy_match / log_missing_field applied to the lists
log_fuzzy_match(matches, r) ==
    IF r.log = "fuzzy" THEN Append(matches, r.entry) ELSE matches
log_missing_field(missing, r) ==
    IF r.log = "missing" THEN Append(missing, r.entry) ELSE missing

KeyLabels ==
    {<<"A", " ", "b">>, <<"a", " ", "b">>, <<"A", "_", "b">>, <<"A", "b">>,
     <<"a", "b">>, <<"C">>, <<"c", "_">>, <<"_">>}

\* candidate labels, as in every list of ROW_MAP, hold letters
CandidateLabels == {<<"A", " ", "b">>, <<"A", "b">>, <<"C">>}

DistinctSeqs(S, lo, hi) ==
    {s \in UNION {[1..m -> S] : m \in lo..hi} :
        \A i, j \in DOMAIN s : s[i] = s[j] => i = j}

\* State once main() has stored the logger of setup_logging in the module
TelemetryConfigured ==
    /\ data_quality_logger = "configured"
    /\ fuzzy_matches = <<>>
    /\ missing_fields = <<>>
    /\ results = <<>>
    /\ validation_warnings = <<>>
    /\ held_summary = None
    /\ files = NoFiles
    /\ now = 0
    /\ fetches = 0

InitResolver ==
    /\ op = "input"
    /\ arg \in {[keys |-> k, candidates |-> c] :
                   k \in DistinctSeqs(KeyLabels, 0, MaxKeys),
                   c \in DistinctSeqs(CandidateLabels, 1, MaxCands)}
    /\ ret = Resolution(FALSE, <<>>, 0, "none", NoEntry)
    /\ TelemetryConfigured

FindMatchingKey ==
    /\ Len(fuzzy_matches) + Len(missing_fields) < MaxCalls
    /\ LET r == find_matching_key(arg.keys, arg.candidates)
       IN  /\ ret' = r
           /\ fuzzy_matches' = log_fuzzy_match(fuzzy_matches, r)
           /\ missing_fields' = log_missing_field(missing_fields, r)
    /\ op' = "find_matching_key"
    /\ UNCHANGED <<arg, data_quality_logger, results,
                 validation_warnings, held_summary, files, now, fetches>>

\* DataQualityLogger.reset between resolutions
ResetLogger ==
    /\ fuzzy_matches # <<>> \/ missing_fields # <<>>
    /\ fuzzy_matches' = <<>>
    /\ missing_fields' = <<>>
    /\ op' = "reset"
    /\ UNCHANGED <<arg, ret, data_quality_logger, results,
                 validation_warnings, held_summary, files, now, fetches>>

NextResolver == FindMatchingKey \/ ResetLogger

SpecResolver == InitResolver /\ [][NextResolver]_vars

Resolved == op = "find_matching_key"
ExactAny(a) == \E c \in Range(a.candidates) : c \in Range(a.keys)
CaseAny(a) ==
    \E c \in Range(a.candidates), k \in Range(a.keys) : lower(c) = lower(k)
NormalizedAny(a) ==
    \E c \in Range(a.candidates), k \in Range(a.keys) :
        normalize_label(c) = normalize_label(k)

\* C3: the three tiers are applied in strict precedence over all the
\* candidates: when some candidate equals a present key the returned key is
\* a present key equal to a candidate; when none does but some candidate
\* matches a present key case-insensitively, the returned key is a present
\* key that a candidate matches case-insensitively.
C3_TierPrecedence ==
    Resolved =>
        /\ ExactAny(arg) =>
               /\ ret.found
               /\ ret.key \in Range(arg.keys) \cap Range(arg.candidates)
        /\ (~ExactAny(arg) /\ CaseAny(arg)) =>
               /\ ret.found
               /\ ret.key \in Range(arg.keys)
               /\ \E c \in Range(arg.candidates) : lower(c) = lower(ret.key)

\* C3's case: a later candidate equals a present key while an earlier one
\* matches another present key only case-insensitively, and the equal key
\* is the one returned.
C3_Witness ==
    /\ Resolved
    /\ \E i, j \in DOMAIN arg.candidates :
           /\ i < j
           /\ arg.candidates[i] \notin Range(arg.keys)
           /\ \E k \in Range(arg.keys) :
                  k # ret.key /\ lower(k) = lower(arg.candidates[i])
           /\ ret.key = arg.candidates[j]
           /\ ret.key \in Range(arg.keys)

\* C5: a resolution that succeeds only at tier 3 appends exactly one
\* fuzzy-match entry, naming the candidate and the matched key, whose
\* confidence is len(normalized) / max(len(candidate), len(matched)) with
\* 0 < confidence <= 1; a resolution that succeeds at tier 1 or 2 (or
\* fails) appends none.
C5_FuzzyEntryExactlyAtTier3 ==
    [][op' = "find_matching_key" =>
          IF ~ExactAny(arg) /\ ~CaseAny(arg) /\ NormalizedAny(arg)
          THEN /\ Len(fuzzy_matches') = Len(fuzzy_matches) + 1
               /\ SubSeq(fuzzy_matches', 1, Len(fuzzy_matches)) = fuzzy_matches
               /\ LET e == fuzzy_matches'[Len(fuzzy_matches')]
                  IN  /\ e.field \in Range(arg.candidates)
                      /\ e.matched = ret'.key
                      /\ e.matched \in Range(arg.keys)
                      /\ normalize_label(e.field) = normalize_label(e.matched)
                      /\ e.confidence.num = Len(normalize_label(e.field))
                      /\ e.confidence.den = Max(Len(e.field), Len(e.matched))
                      /\ 0 < e.confidence.num
                      /\ e.confidence.num <= e.confidence.den
          ELSE fuzzy_matches' = fuzzy_matches]_vars

\* C5's case: a tier-3 resolution has logged its entry, with a confidence
\* below 1 against a key longer than the candidate.
C5_Witness ==
    /\ Resolved
    /\ ~ExactAny(arg) /\ ~CaseAny(arg) /\ NormalizedAny(arg)
    /\ fuzzy_matches # <<>>
    /\ LET e == fuzzy_matches[Len(fuzzy_matches)]
       IN  /\ e.matched = ret.key
           /\ Len(e.matched) > Len(e.field)
           /\ e.confidence.num < e.confidence.den

(***************************************************************************)
(* Statement extractor (analyze.py, series_utils.rows_from_payload).  A    *)
(* statement is a dict given as its items in insertion order; a value that *)
(* is a dict is Dict(items), anything else is NotADict.                    *)
(***************************************************************************)
\* periods (row-major) or row ids (date-column) of a statement
MaxPeriods == 2

Dict(items) == [dict |-> TRUE, items |-> items]
NotADict == [dict |-> FALSE, items |-> <<>>]

\* the key of the date column of a date-column statement (U+62A5 U+544A
\* U+65E5 U+671F, "report date")
DateField == Label(<<"report_date">>)

\* the candidate lists of the income-statement metrics of ROW_MAP, spelled
\* over the alphabet
ROW_MAP ==
    [revenue |-> << <<"A", " ", "b">>, <<"B">> >>,
     net_income |-> << <<"C">> >>,
     gross_profit |-> << <<"G">> >>,
     operating_income |-> << <<"O">> >>,
     ebitda |-> << <<"E">> >>]

has_key(items, key) == \E i \in DOMAIN items : items[i].key = key
keys_of(items) == [i \in DOMAIN items |-> items[i].key]
is_dict_entry(entry) == entry.value.dict

\* rows_from_payload gone wrong: every row reads the cells of the first row id
rows_from_payload_first_row(payload, row_key) ==
    LET columns == SelectSeq(payload, is_dict_entry)
        row_ids == IF has_key(payload, row_key) /\ get(payload, row_key).dict
                   THEN keys_of(get(payload, row_key).items)
                   ELSE <<>>
    IN  [r \in DOMAIN row_ids |->
            [c \in DOMAIN columns |->
                [key |-> columns[c].key,
                 value |-> IF columns[c].key = row_key
                           THEN get(columns[c].value.items, row_ids[r])
                           ELSE get(columns[c].value.items, row_ids[1])]]]

rows_from_payload(payload, row_key) ==
    IF payload = <<>> THEN <<>>
    ELSE LET keyed == IF has_key(payload, row_key) /\ get(payload, row_key).dict
                      THEN keys_of(get(payload, row_key).items)
                      ELSE <<>>
             row_ids == IF keyed # <<>> THEN keyed
                        ELSE IF payload[1].value.dict
                             THEN keys_of(payload[1].value.items)
                             ELSE <<>>
             columns == SelectSeq(payload, is_dict_entry)
         IN  [r \in DOMAIN row_ids |->
                 [c \in DOMAIN columns |->
                     [key |-> columns[c].key,
                      value |-> get(columns[c].value.items, row_ids[r])]]]

RECURSIVE unique_keys(_, _)
unique_keys(all_keys, seen) ==
    IF all_keys = <<>> THEN <<>>
    ELSE IF Head(all_keys) \in seen THEN unique_keys(Tail(all_keys), seen)
         ELSE <<Head(all_keys)>>
                  \o unique_keys(Tail(all_keys), seen \cup {Head(all_keys)})

RECURSIVE all_row_keys(_)
all_row_keys(statement) ==
    IF statement = <<>> THEN <<>>
    ELSE IF Head(statement).value.dict
         THEN keys_of(Head(statement).value.items) \o all_row_keys(Tail(statement))
         ELSE all_row_keys(Tail(statement))

find_matching_row_key(statement, candidates) ==
    find_matching_key(unique_keys(all_row_keys(statement), {}), candidates)

NoResolution == Resolution(FALSE, <<>>, 0, "none", NoEntry)

not_date_field(entry) == entry.key # DateField

\* extract_row gone wrong: in the row-major orientation every period reads
\* the key that its own row map resolves to
extract_row_per_period(statement, candidates) ==
    IF statement = <<>>
    THEN [resolution |-> NoResolution, frames |-> {empty_series}]
    ELSE IF has_key(statement, DateField)
    THEN LET others == SelectSeq(statement, not_date_field)
             r == find_matching_key([i \in DOMAIN others |-> others[i].key.text],
                                    candidates)
         IN  IF ~r.found \/ r.key = <<>>
             THEN [resolution |-> r, frames |-> {empty_series}]
             ELSE [resolution |-> r,
                   frames |-> series_from_rows(rows_from_payload(statement, DateField),
                                               DateField, Label(r.key))]
    ELSE LET r == find_matching_row_key(statement, candidates)
             periods == SelectSeq(statement, is_dict_entry)
             mapping == [i \in DOMAIN periods |->
                            [key |-> periods[i].key,
                             value |-> get(periods[i].value.items,
                                           find_matching_key(
                                               keys_of(periods[i].value.items),
                                               candidates).key)]]
         IN  IF ~r.found \/ r.key = <<>>
             THEN [resolution |-> r, frames |-> {empty_series}]
             ELSE [resolution |-> r, frames |-> series_from_mapping(mapping)]

\* extract_row: the resolution it ran (NoResolution when it ran none) and
\* the frames it may return
extract_row(statement, candidates) ==
    IF statement = <<>>
    THEN [resolution |-> NoResolution, frames |-> {empty_series}]
    ELSE IF has_key(statement, DateField)
    THEN LET others == SelectSeq(statement, not_date_field)
             r == find_matching_key([i \in DOMAIN others |-> others[i].key.text],
                                    candidates)
         IN  IF ~r.found \/ r.key = <<>>
             THEN [resolution |-> r, frames |-> {empty_series}]
             ELSE [resolution |-> r,
                   frames |-> series_from_rows(rows_from_payload(statement, DateField),
                                               DateField, Label(r.key))]
    ELSE LET r == find_matching_row_key(statement, candidates)
             periods == SelectSeq(statement, is_dict_entry)
             mapping == [i \in DOMAIN periods |->
                            [key |-> periods[i].key,
                             value |-> get(periods[i].value.items, r.key)]]
         IN  IF ~r.found \/ r.key = <<>>
             THEN [resolution |-> r, frames |-> {empty_series}]
             ELSE [resolution |-> r, frames |-> series_from_mapping(mapping)]

(***************************************************************************)
(* Statements the extractor is run on.                                     *)
(***************************************************************************)
StatementLabels == {<<"A", " ", "b">>, <<"a", "_", "b">>, <<"B">>}
StatementDates ==
    {RawDate("iso", 1, 0, 0), RawDate("slash", 1, 0, 0), RawDate("iso", 2, 0, 0)}

\* the columns of the two-column statements
LabelPairs ==
    {<<(<<"a", "_", "b">>), (<<"A", " ", "b">>)>>, <<(<<"A", " ", "b">>), (<<"B">>)>>}

\* row maps of a period: line item -> raw value
RowMaps ==
    {<<>>,
     <<Item(<<"A", " ", "b">>, PyInt(1))>>,
     <<Item(<<"A", " ", "b">>, PyStrNum(2))>>,
     <<Item(<<"A", " ", "b">>, PyStrJunk)>>,
     <<Item(<<"a", "_", "b">>, PyInt(1))>>,
     <<Item(<<"B">>, PyStrNum(2))>>,
     <<Item(<<"A", " ", "b">>, PyInt(1)), Item(<<"B">>, PyStrNum(2))>>,
     <<Item(<<"a", "_", "b">>, PyInt(1)), Item(<<"A", " ", "b">>, PyStrNum(2))>>}

RowMajorStatements ==
    {st \in UNION {[1..n -> {Item(d, rm) : d \in StatementDates \cup {JunkDate},
                                           rm \in {Dict(x) : x \in RowMaps}
                                                      \cup {NotADict}}] :
                      n \in 0..MaxPeriods} :
        IsMapping(st)}

\* column maps over the row ids 1..m: a row id may lack a cell
ColumnMaps(m, cells) ==
    {SelectSeq([r \in 1..m |-> Item(r, f[r])], LAMBDA it : it.value # PyOther) :
        f \in [1..m -> cells \cup {PyOther}]}

DateColumns(m) ==
    {Item(DateField, Dict([r \in 1..m |-> Item(r, f[r])])) :
        f \in [1..m -> StatementDates \cup {PyNone}]}
        \cup {Item(DateField, NotADict), Item(DateField, Dict(<<>>))}

MetricColumns(m) ==
    {<<Item(Label(l), Dict(cm))>> :
        l \in StatementLabels, cm \in ColumnMaps(m, {PyInt(1), PyStrNum(2)})}
        \cup {<<Item(Label(p[1]), Dict(cm)),
                Item(Label(p[2]), Dict([r \in 1..m |-> Item(r, PyInt(1))]))>> :
                 p \in LabelPairs, cm \in ColumnMaps(m, {PyInt(1), PyStrNum(2)})}
        \cup {<<Item(Label(<<"A", " ", "b">>), NotADict)>>}

DateColumnStatements ==
    UNION {{<<dc>> \o mc : dc \in DateColumns(m), mc \in MetricColumns(m)}
               \cup {mc \o <<dc>> : dc \in DateColumns(m), mc \in MetricColumns(m)} :
           m \in 1..MaxPeriods}

InitExtract ==
    /\ op = "input"
    /\ \/ arg \in {[statement |-> st, candidates |-> ROW_MAP.revenue] :
                      st \in RowMajorStatements}
       \/ arg \in {[statement |-> st, candidates |-> ROW_MAP.revenue] :
                      st \in DateColumnStatements}
    /\ ret = empty_series
    /\ TelemetryConfigured

ExtractRow ==
    /\ Len(fuzzy_matches) + Len(missing_fields) < MaxCalls
    /\ LET e == extract_row(arg.statement, arg.candidates)
       IN  /\ \E df \in e.frames : ret' = df
           /\ fuzzy_matches' = log_fuzzy_match(fuzzy_matches, e.resolution)
           /\ missing_fields' = log_missing_field(missing_fields, e.resolution)
    /\ op' = "extract_row"
    /\ UNCHANGED <<arg, data_quality_logger, results,
                 validation_warnings, held_summary, files, now, fetches>>

NextExtract == ExtractRow \/ ResetLogger

SpecExtract == InitExtract /\ [][NextExtract]_vars

Extracted == op = "extract_row"

CellsOf(statement, column) ==
    IF has_key(statement, column) THEN get(statement, column).items ELSE <<>>

\* What a statement stores for the line item label: one record per period
\* that holds the item, with the period's date text and the raw value.
\* Row-major: a period is a top-level entry; date-column: a row id.
StoredUnder(statement, label) ==
    IF has_key(statement, DateField)
    THEN {[id |-> pair[1].key, date |-> pair[1].value, raw |-> pair[2].value] :
             pair \in {q \in Range(CellsOf(statement, DateField))
                                \X Range(CellsOf(statement, Label(label))) :
                          q[1].key = q[2].key}}
    ELSE UNION {{[id |-> i, date |-> statement[i].key, raw |-> it.value] :
                    it \in {x \in Range(statement[i].value.items) : x.key = label}} :
                i \in DOMAIN statement}

MatchesCandidate(label, candidates) ==
    \E c \in Range(candidates) : normalize_label(c) = normalize_label(label)

\* C6: in both orientations every point (d, v) of the extracted series is
\* the value stored for one resolved line item at a period whose date
\* parses to d, each point coming from a period of its own: no value is
\* attributed to another period than the one it was stored under.
C6_AttributionPreserved ==
    Extracted =>
        \/ ret = empty_series
        \/ \E label \in StatementLabels :
               /\ MatchesCandidate(label, arg.candidates)
               /\ LET stored == StoredUnder(arg.statement, label)
                  IN  \E f \in [DOMAIN ret -> stored] :
                          /\ \A i, j \in DOMAIN ret : f[i].id = f[j].id => i = j
                          /\ \A i \in DOMAIN ret :
                                 /\ parse_datetime(f[i].date) = ret[i].date
                                 /\ to_float(f[i].raw) = ret[i].value

\* C6's case: a date-column statement whose first row holds the later date,
\* so that sorting reorders the rows, extracted to two points of different
\* values.
C6_Witness ==
    /\ Extracted
    /\ has_key(arg.statement, DateField)
    /\ Len(ret) = 2
    /\ ret[1].date.v < ret[2].date.v
    /\ ret[1].value # ret[2].value
    /\ LET dates == get(arg.statement, DateField).items
       IN  parse_datetime(dates[1].value) = ret[2].date

\* C6's case in the row-major orientation
C6_WitnessRowMajor ==
    /\ Extracted
    /\ ~has_key(arg.statement, DateField)
    /\ Len(ret) = 2
    /\ ret[1].date.v < ret[2].date.v
    /\ ret[1].value # ret[2].value
    /\ parse_datetime(arg.statement[1].key) = ret[2].date

\* ---------------------------------------------------------------------
\* Reading a series back: series_rows, series_values, series_to_dict
\* ---------------------------------------------------------------------

finite_rows(df) == SelectSeq(df, LAMBDA r : is_finite(r.value))

\* series_rows: nulls dropped, sorted by date again, non-finite values
\* filtered out.  One outcome per order the sort may give to equal dates.
series_rows(series) ==
    IF series = <<>> THEN {<<>>}
    ELSE {finite_rows(df) : df \in sort_by_date(drop_nulls(series))}

\* series_values: the dates and the values of series_rows, index by index.
\* The model keeps them as one list of rows.
series_values(series) == series_rows(series)

\* A Python dict with hashable scalar keys: a function from its keys.
EmptyDict == <<>>
dict_set(d, k, v) ==
    [x \in (DOMAIN d) \cup {k} |-> IF x = k THEN v ELSE d[x]]

RECURSIVE dict_of_rows(_, _)
dict_of_rows(rows, d) ==
    IF rows = <<>> THEN d
    ELSE dict_of_rows(Tail(rows),
                      dict_set(d, date_iso(Head(rows).date.v), Head(rows).value))

\* series_to_dict: keyed by the calendar day of each point, later points
\* overwriting earlier ones of the same day.
series_to_dict(series) ==
    {dict_of_rows(rows, EmptyDict) : rows \in series_rows(series)}

\* ---------------------------------------------------------------------
\* Derived metrics: compute_ttm_sum, compute_yoy, compute_cagr
\* ---------------------------------------------------------------------

\* Window of the trailing sum (values[idx - 3 : idx + 1])
TtmWindow == 4

RECURSIVE window_sum(_, _, _)
window_sum(rows, lo, hi) ==
    IF lo > hi THEN 0 ELSE rows[lo].value.v + window_sum(rows, lo + 1, hi)

compute_ttm_sum_short_window(series) ==
    {IF Len(rows) < TtmWindow THEN empty_series
     ELSE [k \in 1..(Len(rows) - TtmWindow + 1) |->
              Row(rows[k + TtmWindow - 1].date,
                  Fin(window_sum(rows, k + 1, k + TtmWindow - 1)))] :
     rows \in series_values(series)}

compute_ttm_sum(series) ==
    {IF Len(rows) < TtmWindow THEN empty_series
     ELSE [k \in 1..(Len(rows) - TtmWindow + 1) |->
              Row(rows[k + TtmWindow - 1].date,
                  Fin(window_sum(rows, k, k + TtmWindow - 1)))] :
     rows \in series_values(series)}

\* Exact quotients: a float result is modelled by the rational it rounds.
Abs(x) == IF x < 0 THEN -x ELSE x

RECURSIVE GCD(_, _)
GCD(a, b) == IF b = 0 THEN a ELSE GCD(b, a % b)

Frac(n, d) ==
    LET g == GCD(Abs(n), Abs(d))
        s == IF d < 0 THEN -1 ELSE 1
    IN  [num |-> (s * n) \div g, den |-> (s * d) \div g]

\* a <= b, both in lowest terms with positive denominators
frac_leq(a, b) == a.num * b.den <= b.num * a.den

RECURSIVE yoy_from(_, _, _)
yoy_from(rows, idx, result) ==
    IF idx > Len(rows) THEN result
    ELSE LET previous == rows[idx - 1].value.v
             current  == rows[idx].value.v
         IN  IF previous = 0 THEN yoy_from(rows, idx + 1, result)
             ELSE yoy_from(rows, idx + 1,
                           dict_set(result, date_iso(rows[idx].date.v),
                                    Frac(current - previous, previous)))

compute_yoy(series) ==
    {IF Len(rows) < 2 THEN EmptyDict ELSE yoy_from(rows, 2, EmptyDict) :
     rows \in series_values(series)}

\* Outcomes of compute_cagr.  (end / start) ** (1 / years) - 1 is exact in
\* the model when the exponent is 1 or the quotient is 0 or 1; otherwise
\* a positive quotient gives a float kept as the root it stands for, and a
\* negative quotient gives a complex number, which float() refuses.
NoValue == [kind |-> "None", value |-> Frac(0, 1), root |-> 1]
Float(q) == [kind |-> "float", value |-> q, root |-> 1]
RootMinusOne(q, years) == [kind |-> "float", value |-> q, root |-> years]
Raised(error) == [kind |-> error, value |-> Frac(0, 1), root |-> 1]

cagr_of(start, end, years) ==
    LET quotient == Frac(end, start)
    IN  IF years = 1 THEN Float(Frac(end - start, start))
        ELSE IF quotient.num = 0 THEN Float(Frac(-1, 1))
        ELSE IF quotient = Frac(1, 1) THEN Float(Frac(0, 1))
        ELSE IF quotient.num < 0 THEN Raised("TypeError")
        ELSE RootMinusOne(quotient, years)

compute_cagr_none_on_zero_end(series) ==
    {IF Len(rows) < 2 THEN NoValue
     ELSE LET start == rows[1].value.v
              end   == rows[Len(rows)].value.v
          IN  IF start = 0 \/ end = 0 THEN NoValue
              ELSE cagr_of(start, end, Max(Len(rows) - 1, 1)) :
     rows \in series_values(series)}

compute_cagr(series) ==
    {IF Len(rows) < 2 THEN NoValue
     ELSE LET start == rows[1].value.v
              end   == rows[Len(rows)].value.v
          IN  IF start = 0 THEN NoValue
              ELSE cagr_of(start, end, Max(Len(rows) - 1, 1)) :
     rows \in series_values(series)}

\* ---------------------------------------------------------------------
\* Specifications of the derived metrics.  Their inputs are series as the
\* constructors leave them: no nulls, sorted by date, possibly holding
\* equal timestamps, two timestamps of one day, or a non-finite value.
\* ---------------------------------------------------------------------

\* Largest number of points of a quarterly series
MaxQuarters == 5
\* Largest number of points of an annual series
MaxYears == 3

RECURSIVE SumTo(_, _)
SumTo(f, k) == IF k = 0 THEN 0 ELSE f[k] + SumTo(f, k - 1)

\* The sorted series with the given values and the given gaps between
\* consecutive dates
SortedSeries(values, gaps) ==
    [i \in DOMAIN values |-> Row(Dt(TodPerDay + SumTo(gaps, i - 1)), values[i])]

QuarterValues == {Fin(1), Fin(-3), Inf(1)}
QuarterGaps == {0, TodPerDay}
InitTtm ==
    /\ op = "input"
    /\ \E n \in 0..MaxQuarters :
           \E values \in [1..n -> QuarterValues],
              gaps \in [1..(n - 1) -> QuarterGaps] :
               arg = SortedSeries(values, gaps)
    /\ ret = None
    /\ TelemetryIdle

ComputeTtmSum ==
    /\ op = "input"
    /\ op' = "compute_ttm_sum"
    /\ ret' \in compute_ttm_sum(arg)
    /\ UNCHANGED <<arg, data_quality_logger, fuzzy_matches, missing_fields, results,
                 validation_warnings, held_summary, files, now, fetches>>

NextTtm == ComputeTtmSum

SpecTtm == InitTtm /\ [][NextTtm]_vars

AnnualValues == {Fin(-2), Fin(0), Fin(1), Fin(4), Inf(1)}
AnnualGaps == {0, 1, TodPerDay}
InitGrowth ==
    /\ op = "input"
    /\ \E n \in 0..MaxYears :
           \E values \in [1..n -> AnnualValues],
              gaps \in [1..(n - 1) -> AnnualGaps] :
               arg = SortedSeries(values, gaps)
    /\ ret = None
    /\ TelemetryIdle

ComputeYoy ==
    /\ op = "input"
    /\ op' = "compute_yoy"
    /\ ret' \in compute_yoy(arg)
    /\ UNCHANGED <<arg, data_quality_logger, fuzzy_matches, missing_fields, results,
                 validation_warnings, held_summary, files, now, fetches>>

ComputeCagr ==
    /\ op = "input"
    /\ op' = "compute_cagr"
    /\ ret' \in compute_cagr(arg)
    /\ UNCHANGED <<arg, data_quality_logger, fuzzy_matches, missing_fields, results,
                 validation_warnings, held_summary, files, now, fetches>>

NextGrowth == ComputeYoy \/ ComputeCagr

SpecGrowth == InitGrowth /\ [][NextGrowth]_vars

\* C7: a trailing-twelve-month series over n >= 4 points (the finite points
\* of the input, in date order) has exactly n - 3 points, the one for the
\* i-th input point (i >= 4) dated at that point's date and holding the sum
\* of the values of points i-3 .. i; points 1 .. 3 give no output point; a
\* series of fewer than four points gives the empty series.
C7_TtmIsFourPointWindow ==
    op = "compute_ttm_sum" =>
        \E rows \in series_rows(arg) :
            LET n == Len(rows)
            IN  /\ n < 4 => ret = <<>>
                /\ n >= 4 =>
                       /\ Len(ret) = n - 3
                       /\ \A i \in 4..n :
                              /\ ret[i - 3].date = rows[i].date
                              /\ ret[i - 3].value =
                                     Fin(rows[i - 3].value.v + rows[i - 2].value.v
                                         + rows[i - 1].value.v + rows[i].value.v)

\* C7's case: five finite points of distinct dates give two sums that differ
C7_Witness ==
    /\ op = "compute_ttm_sum"
    /\ Len(arg) = 5
    /\ \A i \in 1..5 : is_finite(arg[i].value)
    /\ \A i \in 1..4 : arg[i].date.v < arg[i + 1].date.v
    /\ Len(ret) = 2
    /\ ret[1].value # ret[2].value

\* C8 as stated: a series whose end value is zero and whose start value is
\* not (such as [100, 0]) gets no CAGR.
C8_ZeroEndGivesNone ==
    op = "compute_cagr" =>
        \A rows \in series_rows(arg) :
            (/\ Len(rows) >= 2
             /\ rows[1].value.v # 0
             /\ rows[Len(rows)].value.v = 0) => ret = NoValue

\* C8, amended: compute_cagr returns no value exactly when the series has
\* fewer than two finite points or its start value is zero; a zero end
\* value after a non-zero start gives -1.0, a total decline.
C8_NoneOnlyOnZeroStart ==
    op = "compute_cagr" =>
        \E rows \in series_rows(arg) :
            LET n == Len(rows)
            IN  /\ ret = NoValue <=> (n < 2 \/ rows[1].value.v = 0)
                /\ (n >= 2 /\ rows[1].value.v # 0 /\ rows[n].value.v = 0)
                       => ret = Float(Frac(-1, 1))

\* C8's case: start non-zero, end zero, over more than one year
C8_Witness ==
    /\ op = "compute_cagr"
    /\ Len(arg) = 3
    /\ arg[1].value = Fin(4)
    /\ arg[3].value = Fin(0)
    /\ ret = Float(Frac(-1, 1))

\* C9: compute_cagr never raises, whatever the values of the series.
C9_CagrNeverRaises ==
    op = "compute_cagr" => ret.kind \in {"None", "float"}

\* C10: the result of compute_yoy holds, for each consecutive pair
\* (prev, curr) with prev # 0, an entry keyed by the later period with the
\* value curr / prev - 1, and no entry that does not come from such a pair.
C10_YoyEntryPerPair ==
    op = "compute_yoy" =>
        \E rows \in series_rows(arg) :
            /\ \A i \in 2..Len(rows) :
                   rows[i - 1].value.v # 0 =>
                       /\ date_iso(rows[i].date.v) \in DOMAIN ret
                       /\ ret[date_iso(rows[i].date.v)] =
                              Frac(rows[i].value.v - rows[i - 1].value.v,
                                   rows[i - 1].value.v)
            /\ \A k \in DOMAIN ret :
                   \E i \in 2..Len(rows) :
                       /\ rows[i - 1].value.v # 0
                       /\ date_iso(rows[i].date.v) = k
                       /\ ret[k] = Frac(rows[i].value.v - rows[i - 1].value.v,
                                        rows[i - 1].value.v)

\* ---------------------------------------------------------------------
\* build_analysis on a payload whose only statement is the annual income
\* statement: the quarterly statements, the balance sheet, the cash flow
\* and the price history are absent, so their series are empty and run no
\* resolution.
\* ---------------------------------------------------------------------

\* Largest number of build_analysis runs worth of telemetry
MaxRuns == 2

\* the metrics extract_metrics takes from the income statement, in order
IncomeMetrics ==
    <<"revenue", "net_income", "gross_profit", "operating_income", "ebitda">>

extract_metrics(income) ==
    [m \in Range(IncomeMetrics) |-> extract_row(income, ROW_MAP[m])]

\* the telemetry lists after the resolutions of extract_metrics, in order
RECURSIVE logged_fuzzy(_, _, _)
logged_fuzzy(matches, extracted, order) ==
    IF order = <<>> THEN matches
    ELSE logged_fuzzy(log_fuzzy_match(matches, extracted[Head(order)].resolution),
                      extracted, Tail(order))

RECURSIVE logged_missing(_, _, _)
logged_missing(missing, extracted, order) ==
    IF order = <<>> THEN missing
    ELSE logged_missing(log_missing_field(missing, extracted[Head(order)].resolution),
                        extracted, Tail(order))

\* DataQualityLogger.get_summary: the counts at the time of the call
get_summary(matches, missing) ==
    IF data_quality_logger = "None" THEN [fuzzy_matches |-> 0, missing_fields |-> 0]
    ELSE [fuzzy_matches |-> Len(matches), missing_fields |-> Len(missing)]

NoGrowth ==
    [revenue_yoy |-> EmptyDict, net_income_yoy |-> EmptyDict,
     revenue_cagr |-> NoValue, net_income_cagr |-> NoValue]

Analysis(status, financials, growth, field_matching) ==
    [status |-> status, financials |-> financials, growth |-> growth,
     field_matching |-> field_matching]

\* The outcomes of build_analysis once the metrics are extracted: the
\* analysis dict, or the exception that leaves the function.
analysis_outcomes(metrics, dq_summary) ==
    {IF rc.kind \notin {"None", "float"} \/ nc.kind \notin {"None", "float"}
     THEN Analysis(IF rc.kind \notin {"None", "float"} THEN rc.kind ELSE nc.kind,
                   [m \in Range(IncomeMetrics) |-> EmptyDict], NoGrowth, dq_summary)
     ELSE Analysis("returned",
                   [revenue |-> f1, net_income |-> f2, gross_profit |-> f3,
                    operating_income |-> f4, ebitda |-> f5],
                   [revenue_yoy |-> ry, net_income_yoy |-> ny,
                    revenue_cagr |-> rc, net_income_cagr |-> nc],
                   dq_summary) :
        f1 \in series_to_dict(metrics.revenue),
        f2 \in series_to_dict(metrics.net_income),
        f3 \in series_to_dict(metrics.gross_profit),
        f4 \in series_to_dict(metrics.operating_income),
        f5 \in series_to_dict(metrics.ebitda),
        ry \in compute_yoy(metrics.revenue),
        ny \in compute_yoy(metrics.net_income),
        rc \in compute_cagr(metrics.revenue),
        nc \in compute_cagr(metrics.net_income)}

\* cells a period may hold for revenue and for net income
RevenueCells ==
    {<<>>, <<Item(<<"A", " ", "b">>, PyInt(1))>>, <<Item(<<"a", "_", "b">>, PyInt(2))>>}
NetIncomeCells ==
    {<<>>, <<Item(<<"C">>, PyInt(-2))>>, <<Item(<<"C">>, PyInt(1))>>,
     <<Item(<<"C">>, PyInt(0))>>}

Payload(income) == [income_statement |-> income]

InitAnalysis ==
    /\ op = "input"
    /\ \E n \in 0..MaxYears :
           \E rev \in [1..n -> RevenueCells], ni \in [1..n -> NetIncomeCells] :
               arg = Payload([i \in 1..n |->
                                 Item(RawDate("iso", i, 0, 0), Dict(rev[i] \o ni[i]))])
    /\ ret = Analysis("none", [m \in Range(IncomeMetrics) |-> EmptyDict], NoGrowth,
                      [fuzzy_matches |-> 0, missing_fields |-> 0])
    /\ TelemetryConfigured

BuildAnalysis ==
    /\ Len(fuzzy_matches) + Len(missing_fields) < MaxRuns * Len(IncomeMetrics)
    /\ LET extracted == extract_metrics(arg.income_statement)
           matches == logged_fuzzy(fuzzy_matches, extracted, IncomeMetrics)
           missing == logged_missing(missing_fields, extracted, IncomeMetrics)
       IN  /\ fuzzy_matches' = matches
           /\ missing_fields' = missing
           /\ \E revenue \in extracted.revenue.frames,
                 net_income \in extracted.net_income.frames,
                 gross_profit \in extracted.gross_profit.frames,
                 operating_income \in extracted.operating_income.frames,
                 ebitda \in extracted.ebitda.frames :
                  ret' \in analysis_outcomes(
                              [revenue |-> revenue, net_income |-> net_income,
                               gross_profit |-> gross_profit,
                               operating_income |-> operating_income,
                               ebitda |-> ebitda],
                              get_summary(matches, missing))
    /\ op' = "build_analysis"
    /\ UNCHANGED <<arg, data_quality_logger, results,
                 validation_warnings, held_summary, files, now, fetches>>

NextAnalysis == BuildAnalysis

SpecAnalysis == InitAnalysis /\ [][NextAnalysis]_vars

\* no key of the statement matches a candidate exactly, case-insensitively
\* or after normalization
Unresolvable(statement, candidates) ==
    \A k \in Range(all_row_keys(statement)), c \in Range(candidates) :
        normalize_label(k) # normalize_label(c)

CountField(entries, field) ==
    Cardinality({i \in DOMAIN entries : entries[i].field = field})

\* the part of C4 about the resolver and the series: one missing-field
\* entry per unresolvable metric of a run, and an empty series for it in
\* the output when there is an output
C4_UnresolvedMetricIsEmpty ==
    [][op' = "build_analysis" =>
          \A m \in Range(IncomeMetrics) :
              (/\ arg.income_statement # <<>>
               /\ Unresolvable(arg.income_statement, ROW_MAP[m])) =>
                  /\ CountField(missing_fields', ROW_MAP[m][1])
                         = CountField(missing_fields, ROW_MAP[m][1]) + 1
                  /\ ret'.status = "returned" => ret'.financials[m] = EmptyDict]_vars

\* C4: a metric none of whose candidates matches a key of a non-empty
\* statement gets exactly one missing-field entry and an empty series in
\* the output, and build_analysis still completes and returns its output.
C4_UnresolvedMetricIsEmptyNotFatal ==
    [][op' = "build_analysis" =>
          \A m \in Range(IncomeMetrics) :
              (/\ arg.income_statement # <<>>
               /\ Unresolvable(arg.income_statement, ROW_MAP[m])) =>
                  /\ CountField(missing_fields', ROW_MAP[m][1])
                         = CountField(missing_fields, ROW_MAP[m][1]) + 1
                  /\ ret'.status = "returned"
                  /\ ret'.financials[m] = EmptyDict]_vars

\* ---------------------------------------------------------------------
\* Ratios: align_on_date, divide_series, compute_ratios
\* ---------------------------------------------------------------------

\* align_on_date: the inner join of two frames on "date", one row per pair
\* of rows of equal timestamp; the empty frame when either side is empty.
\* The rows come left row by left row; every reader of the result sorts it.
RECURSIVE join_rows(_, _)
join_rows(left, right) ==
    IF left = <<>> THEN <<>>
    ELSE LET l == Head(left)
             hits == SelectSeq(right, LAMBDA r : r.date = l.date)
         IN  [j \in DOMAIN hits |->
                 [date |-> l.date, num |-> l.value, den |-> hits[j].value]]
                 \o join_rows(Tail(left), right)

align_on_date(left, right) ==
    IF left = <<>> \/ right = <<>> THEN <<>> ELSE join_rows(left, right)

sign(n) == IF n < 0 THEN -1 ELSE 1

\* float division of two column values, the divisor not zero
float_div(a, b) ==
    IF a.k = "nan" \/ b.k = "nan" THEN NaN
    ELSE IF a.k = "inf" /\ b.k = "inf" THEN NaN
    ELSE IF a.k = "inf" THEN Inf(a.v * sign(b.v))
    ELSE IF b.k = "inf" THEN Fin(Frac(0, 1))
    ELSE Fin(Frac(a.v, b.v))

divide_series(numerator, denominator) ==
    LET aligned == align_on_date(numerator, denominator)
        nonzero == SelectSeq(aligned, LAMBDA r : r.den # Fin(0))
        result == [i \in DOMAIN nonzero |->
                      Row(nonzero[i].date, float_div(nonzero[i].num, nonzero[i].den))]
    IN  IF aligned = <<>> THEN empty_series
        ELSE IF nonzero = <<>> THEN empty_series
        ELSE finite_rows(result)

\* numerator and denominator metric of each ratio of compute_ratios
RatioInputs ==
    [gross_margin |-> <<"gross_profit", "revenue">>,
     net_margin |-> <<"net_income", "revenue">>,
     roe |-> <<"net_income", "total_equity">>,
     roa |-> <<"net_income", "total_assets">>,
     debt_to_equity |-> <<"total_liabilities", "total_equity">>]

compute_ratios(metrics) ==
    {[gross_margin |-> r1, net_margin |-> r2, roe |-> r3, roa |-> r4,
      debt_to_equity |-> r5] :
        r1 \in series_to_dict(divide_series(metrics.gross_profit, metrics.revenue)),
        r2 \in series_to_dict(divide_series(metrics.net_income, metrics.revenue)),
        r3 \in series_to_dict(divide_series(metrics.net_income, metrics.total_equity)),
        r4 \in series_to_dict(divide_series(metrics.net_income, metrics.total_assets)),
        r5 \in series_to_dict(divide_series(metrics.total_liabilities,
                                            metrics.total_equity))}

\* series a metric of compute_ratios may be: absent, clean, holding a zero,
\* holding a stored infinity, holding two points of one timestamp
RatioSeries ==
    {<<>>,
     <<Row(Dt(TodPerDay), Fin(2))>>,
     <<Row(Dt(TodPerDay), Fin(0)), Row(Dt(2 * TodPerDay), Fin(4))>>,
     <<Row(Dt(TodPerDay), Inf(1)), Row(Dt(2 * TodPerDay), Fin(1))>>,
     <<Row(Dt(2 * TodPerDay), Fin(1)), Row(Dt(2 * TodPerDay), Fin(3))>>}

InitRatios ==
    /\ op = "input"
    /\ \E gp, ni, rev, ta, te, tl \in RatioSeries :
           arg = [gross_profit |-> gp, net_income |-> ni, revenue |-> rev,
                  total_assets |-> ta, total_equity |-> te, total_liabilities |-> tl]
    /\ ret = None
    /\ TelemetryIdle

ComputeRatios ==
    /\ op = "input"
    /\ op' = "compute_ratios"
    /\ ret' \in compute_ratios(arg)
    /\ UNCHANGED <<arg, data_quality_logger, fuzzy_matches, missing_fields, results,
                 validation_warnings, held_summary, files, now, fetches>>

NextRatios == ComputeRatios

SpecRatios == InitRatios /\ [][NextRatios]_vars

\* the pairs (numerator value, denominator value) the two inputs hold at
\* one timestamp of the given day, the denominator not zero
RatioPairs(numerator, denominator, day) ==
    {<<numerator[i].value, denominator[j].value>> :
        <<i, j>> \in {p \in (DOMAIN numerator) \X (DOMAIN denominator) :
                         /\ numerator[p[1]].date = denominator[p[2]].date
                         /\ date_iso(numerator[p[1]].date.v) = day
                         /\ denominator[p[2]].value # Fin(0)}}

\* C11: every ratio is the empty map when one of its two inputs is empty;
\* otherwise it has an entry exactly for the dates both inputs hold with a
\* non-zero denominator, and the entry is numerator / denominator there.
C11_RatioPerCommonDate ==
    op = "compute_ratios" =>
        \A r \in DOMAIN RatioInputs :
            LET numerator == arg[RatioInputs[r][1]]
                denominator == arg[RatioInputs[r][2]]
            IN  IF numerator = <<>> \/ denominator = <<>>
                THEN ret[r] = EmptyDict
                ELSE \A day \in 0..(MaxDay + 1) :
                         LET pairs == RatioPairs(numerator, denominator, day)
                         IN  /\ day \in DOMAIN ret[r] <=> pairs # {}
                             /\ day \in DOMAIN ret[r] =>
                                    \A p \in pairs :
                                        ret[r][day] = float_div(p[1], p[2])

\* ---------------------------------------------------------------------
\* Valuation: align_to_prices (valuation.py)
\* ---------------------------------------------------------------------

\* join_asof(strategy="forward"): the first row dated on or after ts
asof_forward(snapshot_sorted, ts) ==
    LET later == {j \in DOMAIN snapshot_sorted : snapshot_sorted[j].date.v >= ts}
    IN  IF later = {} THEN None
        ELSE snapshot_sorted[CHOOSE j \in later : \A l \in later : j <= l].value

\* join_asof(strategy="backward") on a sorted right frame: the last row
\* dated on or before ts, null when there is none
asof_backward(snapshot_sorted, ts) ==
    LET prior == {j \in DOMAIN snapshot_sorted : snapshot_sorted[j].date.v <= ts}
    IN  IF prior = {} THEN None
        ELSE snapshot_sorted[CHOOSE j \in prior : \A l \in prior : l <= j].value

align_to_prices_forward(snapshot, prices) ==
    IF prices = <<>> THEN {empty_series}
    ELSE {[i \in DOMAIN prices_sorted |->
              Row(prices_sorted[i].date,
                  asof_forward(snapshot_sorted, prices_sorted[i].date.v))] :
             prices_sorted \in sort_by_date(prices),
             snapshot_sorted \in sort_by_date(snapshot)}

align_to_prices(snapshot, prices) ==
    IF prices = <<>> THEN {empty_series}
    ELSE IF snapshot = <<>>
    THEN {[i \in DOMAIN prices_sorted |-> Row(prices_sorted[i].date, None)] :
             prices_sorted \in sort_by_date(prices)}
    ELSE {[i \in DOMAIN prices_sorted |->
              Row(prices_sorted[i].date,
                  asof_backward(snapshot_sorted, prices_sorted[i].date.v))] :
             prices_sorted \in sort_by_date(prices),
             snapshot_sorted \in sort_by_date(snapshot)}

\* Largest number of fundamental snapshots and of daily prices
MaxSnapshots == 2
MaxPrices == 3

\* The sorted series that starts at the given tick
SeriesFrom(start, values, gaps) ==
    [i \in DOMAIN values |-> Row(Dt(start + SumTo(gaps, i - 1)), values[i])]

SnapshotValues == {Fin(5), Fin(6)}
PriceValues == {Fin(1)}
AlignStarts == {0, 1, TodPerDay}
AlignGaps == {0, 1, TodPerDay}

InitAlign ==
    /\ op = "input"
    /\ \E n \in 0..MaxSnapshots, m \in 0..MaxPrices :
           \E sv \in [1..n -> SnapshotValues], sg \in [1..(n - 1) -> AlignGaps],
              pv \in [1..m -> PriceValues], pg \in [1..(m - 1) -> AlignGaps],
              s0 \in AlignStarts, p0 \in AlignStarts :
               arg = [snapshot |-> SeriesFrom(s0, sv, sg),
                      prices |-> SeriesFrom(p0, pv, pg)]
    /\ ret = None
    /\ TelemetryIdle

AlignToPrices ==
    /\ op = "input"
    /\ op' = "align_to_prices"
    /\ ret' \in align_to_prices(arg.snapshot, arg.prices)
    /\ UNCHANGED <<arg, data_quality_logger, fuzzy_matches, missing_fields, results,
                 validation_warnings, held_summary, files, now, fetches>>

NextAlign == AlignToPrices

SpecAlign == InitAlign /\ [][NextAlign]_vars

\* C12: the aligned frame has one row per price point, dated as the price
\* points in date order; the value of a row dated d is the value of a
\* snapshot whose date is the greatest snapshot date <= d, and null when no
\* snapshot is dated on or before d.
C12_NeverForwardLooking ==
    op = "align_to_prices" =>
        /\ Len(ret) = Len(arg.prices)
        /\ \A i \in DOMAIN ret :
               LET d == ret[i].date.v
                   prior == {j \in DOMAIN arg.snapshot : arg.snapshot[j].date.v <= d}
               IN  /\ ret[i].date = arg.prices[i].date
                   /\ IF prior = {} THEN ret[i].value = None
                      ELSE \E j \in prior :
                               /\ \A l \in prior :
                                      arg.snapshot[l].date.v <= arg.snapshot[j].date.v
                               /\ ret[i].value = arg.snapshot[j].value

\* C12's case: two snapshots of different values, three prices of distinct
\* dates, the first before every snapshot, the second between the two
\* snapshots and the third after both
C12_Witness ==
    /\ op = "align_to_prices"
    /\ Len(arg.snapshot) = 2
    /\ Len(ret) = 3
    /\ arg.snapshot[1].date.v < arg.snapshot[2].date.v
    /\ ret[1].date.v < arg.snapshot[1].date.v
    /\ ret[2].date.v < arg.snapshot[2].date.v
    /\ ret[1].value = None
    /\ ret[2].value = Fin(5)
    /\ ret[3].value = Fin(6)

\* ---------------------------------------------------------------------
\* Valuation: percentile (valuation.py)
\* ---------------------------------------------------------------------

\* The values of a history of multiples are quotients: Fin(Frac(n, d)).
positive_values(rows) == SelectSeq(rows, LAMBDA r : r.value.v.num > 0)

\* the number of rows whose value is at most the bound
count_at_most(rows, bound) ==
    Cardinality({i \in DOMAIN rows : frac_leq(rows[i].value.v, bound)})

percentile_over_all_values(current, history) ==
    IF current = None \/ history = <<>> THEN {None}
    ELSE {LET values == positive_values(rows)
          IN  IF values = <<>> THEN None
              ELSE Fin(Frac(count_at_most(rows, current.v) * 100, Len(values))) :
          rows \in series_rows(history)}

percentile(current, history) ==
    IF current = None \/ history = <<>> THEN {None}
    ELSE {LET values == positive_values(rows)
          IN  IF values = <<>> THEN None
              ELSE Fin(Frac(count_at_most(values, current.v) * 100, Len(values))) :
          rows \in series_rows(history)}

\* Largest number of points of a daily history
MaxHistory == 4

HistoryValues == {Fin(Frac(n, 1)) : n \in 0..4} \cup {Inf(1)}
CurrentValues == {None} \cup {Fin(Frac(n, 1)) : n \in {0, 2, 4}}

InitPercentile ==
    /\ op = "input"
    /\ \E n \in 0..MaxHistory :
           \E values \in [1..n -> HistoryValues], current \in CurrentValues :
               arg = [current |-> current,
                      history |-> SortedSeries(values, [i \in 1..(n - 1) |-> TodPerDay])]
    /\ ret = None
    /\ TelemetryIdle

Percentile ==
    /\ op = "input"
    /\ op' = "percentile"
    /\ ret' \in percentile(arg.current, arg.history)
    /\ UNCHANGED <<arg, data_quality_logger, fuzzy_matches, missing_fields, results,
                 validation_warnings, held_summary, files, now, fetches>>

NextPercentile == Percentile

SpecPercentile == InitPercentile /\ [][NextPercentile]_vars

HistoricalValues == finite_rows(arg.history)
PositiveCount == Len(positive_values(HistoricalValues))

\* C13 as stated: the percentile is the number of historical values <=
\* current over the number of positive historical values, times 100, and
\* None when current is missing or no historical value is positive.
C13_CountOfAllValuesAtMostCurrent ==
    op = "percentile" =>
        IF arg.current = None \/ PositiveCount = 0 THEN ret = None
        ELSE ret = Fin(Frac(count_at_most(HistoricalValues, arg.current.v) * 100,
                            PositiveCount))

\* C13, amended: the percentile is the number of positive historical values
\* <= current over the number of positive historical values, times 100,
\* and None when current is missing or no historical value is positive.
C13_CountOfPositiveValuesAtMostCurrent ==
    op = "percentile" =>
        IF arg.current = None \/ PositiveCount = 0 THEN ret = None
        ELSE ret = Fin(Frac(count_at_most(positive_values(HistoricalValues),
                                          arg.current.v) * 100,
                            PositiveCount))

\* C13's case: the history [1, 2, 3, 4] and current 2 give 50
C13_Witness ==
    /\ op = "percentile"
    /\ arg.current = Fin(Frac(2, 1))
    /\ \A i \in DOMAIN arg.history : is_finite(arg.history[i].value)
    /\ [i \in DOMAIN arg.history |-> arg.history[i].value.v.num] = <<1, 2, 3, 4>>
    /\ ret = Fin(Frac(50, 1))

\* C13's case with a historical value that is not positive: the history
\* [0, 2, 4] and current 2 give 50, the zero not counted
C13_WitnessNonPositive ==
    /\ op = "percentile"
    /\ arg.current = Fin(Frac(2, 1))
    /\ \A i \in DOMAIN arg.history : is_finite(arg.history[i].value)
    /\ [i \in DOMAIN arg.history |-> arg.history[i].value.v.num] = <<0, 2, 4>>
    /\ ret = Fin(Frac(50, 1))

\* ---------------------------------------------------------------------
\* Valuation: compute_dcf (valuation.py)
\* ---------------------------------------------------------------------

LCM(a, b) == (a \div GCD(a, b)) * b

frac_add(a, b) ==
    LET den == LCM(a.den, b.den)
    IN  Frac(a.num * (den \div a.den) + b.num * (den \div b.den), den)
frac_sub(a, b) == frac_add(a, Frac(-b.num, b.den))
frac_mul(a, b) ==
    LET x == Frac(a.num, b.den)
        y == Frac(b.num, a.den)
    IN  [num |-> x.num * y.num, den |-> x.den * y.den]
frac_div(a, b) == frac_mul(a, Frac(b.den, b.num))

RECURSIVE frac_pow(_, _)
frac_pow(a, n) == IF n = 0 THEN Frac(1, 1) ELSE frac_mul(a, frac_pow(a, n - 1))

\* the defaults of compute_dcf, the rates in percent
DcfDiscountPct == 10
DcfGrowthPct == 5
DcfTerminalPct == 2
DcfYears == 5

DcfAssumptions ==
    [discount_rate |-> Frac(DcfDiscountPct, 100), growth_rate |-> Frac(DcfGrowthPct, 100),
     terminal_growth |-> Frac(DcfTerminalPct, 100), years |-> DcfYears]

\* (1 + growth_rate) ** year / (1 + discount_rate) ** year, taken as the
\* power of the quotient to keep the intermediate integers small
growth_over_discount(year) ==
    frac_pow(Frac(100 + DcfGrowthPct, 100 + DcfDiscountPct), year)

RECURSIVE present_value(_, _)
present_value(free_cash_flow, year) ==
    IF year = 0 THEN Frac(0, 1)
    ELSE frac_add(present_value(free_cash_flow, year - 1),
                  frac_mul(free_cash_flow, growth_over_discount(year)))

enterprise_value(free_cash_flow) ==
    LET pv_terminal ==
            frac_mul(frac_mul(free_cash_flow, growth_over_discount(DcfYears)),
                     Frac(100 + DcfTerminalPct, DcfDiscountPct - DcfTerminalPct))
    IN  frac_add(present_value(free_cash_flow, DcfYears), pv_terminal)

compute_dcf_per_share_of_enterprise(free_cash_flow, net_debt, shares_outstanding) ==
    IF free_cash_flow = None \/ free_cash_flow.v <= 0 THEN EmptyDict
    ELSE LET ev == enterprise_value(Frac(free_cash_flow.v, 1))
             result == dict_set(dict_set(EmptyDict, "assumptions", DcfAssumptions),
                                "enterprise_value", ev)
         IN  IF shares_outstanding # None /\ shares_outstanding.v # 0
             THEN dict_set(result, "per_share",
                           frac_div(ev, Frac(shares_outstanding.v, 1)))
             ELSE result

compute_dcf(free_cash_flow, net_debt, shares_outstanding) ==
    IF free_cash_flow = None \/ free_cash_flow.v <= 0 THEN EmptyDict
    ELSE LET ev == enterprise_value(Frac(free_cash_flow.v, 1))
             result == dict_set(dict_set(EmptyDict, "assumptions", DcfAssumptions),
                                "enterprise_value", ev)
         IN  IF net_debt = None THEN result
             ELSE LET equity_value == frac_sub(ev, Frac(net_debt.v, 1))
                      with_equity ==
                          dict_set(dict_set(result, "net_debt", Frac(net_debt.v, 1)),
                                   "equity_value", equity_value)
                  IN  IF shares_outstanding # None /\ shares_outstanding.v # 0
                      THEN dict_set(with_equity, "per_share",
                                    frac_div(equity_value,
                                             Frac(shares_outstanding.v, 1)))
                      ELSE with_equity

\* Largest amount (in absolute value) of a cash flow, debt or share count
MaxAmount == 2

Amounts == {None} \cup {Fin(n) : n \in (-MaxAmount)..MaxAmount}

InitDcf ==
    /\ op = "input"
    /\ \E fcf, debt, shares \in Amounts :
           arg = [free_cash_flow |-> fcf, net_debt |-> debt,
                  shares_outstanding |-> shares]
    /\ ret = EmptyDict
    /\ TelemetryIdle

ComputeDcf ==
    /\ op = "input"
    /\ op' = "compute_dcf"
    /\ ret' = compute_dcf(arg.free_cash_flow, arg.net_debt, arg.shares_outstanding)
    /\ UNCHANGED <<arg, data_quality_logger, fuzzy_matches, missing_fields, results,
                 validation_warnings, held_summary, files, now, fetches>>

NextDcf == ComputeDcf

SpecDcf == InitDcf /\ [][NextDcf]_vars

\* C15: compute_dcf returns the empty result exactly when the base free
\* cash flow is missing or <= 0; otherwise the result has enterprise_value,
\* has equity_value = enterprise_value - net_debt exactly when net debt is
\* known, and has per_share = equity_value / shares exactly when net debt
\* is known and the share count is known and not zero.
C15_DcfKeys ==
    op = "compute_dcf" =>
        LET no_base == arg.free_cash_flow = None \/ arg.free_cash_flow.v <= 0
            debt_known == arg.net_debt # None
            shares_known == arg.shares_outstanding # None
                                /\ arg.shares_outstanding.v # 0
        IN  /\ ret = EmptyDict <=> no_base
            /\ ~no_base =>
                   /\ "enterprise_value" \in DOMAIN ret
                   /\ "equity_value" \in DOMAIN ret <=> debt_known
                   /\ debt_known =>
                          ret["equity_value"] =
                              frac_sub(ret["enterprise_value"], Frac(arg.net_debt.v, 1))
                   /\ "per_share" \in DOMAIN ret <=> (debt_known /\ shares_known)
                   /\ (debt_known /\ shares_known) =>
                          ret["per_share"] =
                              frac_div(ret["equity_value"],
                                       Frac(arg.shares_outstanding.v, 1))

\* C15's case: a positive base cash flow, a known net debt and a known
\* non-zero share count give all three values
C15_Witness ==
    /\ op = "compute_dcf"
    /\ arg.free_cash_flow = Fin(2)
    /\ arg.net_debt = Fin(1)
    /\ arg.shares_outstanding = Fin(2)
    /\ DOMAIN ret = {"assumptions", "enterprise_value", "net_debt", "equity_value",
                     "per_share"}
    /\ ret["per_share"] = frac_div(ret["equity_value"], Frac(2, 1))

\* C15's case of a share count without a net debt: no per_share
C15_WitnessNoDebt ==
    /\ op = "compute_dcf"
    /\ arg.free_cash_flow = Fin(1)
    /\ arg.net_debt = None
    /\ arg.shares_outstanding = Fin(2)
    /\ DOMAIN ret = {"assumptions", "enterprise_value"}

\* ---------------------------------------------------------------------
\* Valuation: build_valuation (valuation.py)
\* ---------------------------------------------------------------------

to_series(data) == series_from_mapping(data)

\* the value candidates of to_price_series, the non-ASCII one left out
PriceCandidates == <<"Close", "Adj Close", "close">>

\* to_price_series on a price history without a date column: the column
\* map of the first candidate that names one
to_price_series(payload) ==
    LET price_payload == payload.price_history
        named == {i \in DOMAIN PriceCandidates :
                     \E j \in DOMAIN price_payload :
                         /\ price_payload[j].key = PriceCandidates[i]
                         /\ price_payload[j].value.dict}
    IN  IF price_payload = <<>> \/ named = {} THEN {empty_series}
        ELSE LET first == CHOOSE i \in named : \A l \in named : i <= l
                 j == CHOOSE j \in DOMAIN price_payload :
                          price_payload[j].key = PriceCandidates[first]
             IN  series_from_mapping(price_payload[j].value.items)

convert_series(series, fx_rate, apply_conversion) ==
    IF series = <<>> \/ ~apply_conversion THEN series
    ELSE IF fx_rate = None THEN empty_series
    ELSE [i \in DOMAIN series |->
             Row(series[i].date,
                 IF series[i].value.k = "fin"
                 THEN Fin(series[i].value.v * fx_rate.v) ELSE series[i].value)]

join_series(left, right) == align_on_date(left, right)

\* divide_series of valuation.py keeping every non-zero denominator
valuation_divide_series_nonzero(numerator, denominator, positive_only) ==
    LET aligned == join_series(numerator, denominator)
        kept == SelectSeq(aligned, LAMBDA r : r.den.k # "none" /\ r.den # Fin(0))
        result == [i \in DOMAIN kept |->
                      Row(kept[i].date, float_div(kept[i].num, kept[i].den))]
    IN  IF aligned = <<>> \/ kept = <<>> THEN empty_series ELSE finite_rows(result)

\* divide_series of valuation.py: a null denominator fails either filter
valuation_divide_series(numerator, denominator, positive_only) ==
    LET aligned == join_series(numerator, denominator)
        kept == SelectSeq(aligned,
                          LAMBDA r : /\ r.den.k # "none"
                                     /\ IF positive_only
                                        THEN \/ r.den.k = "fin" /\ r.den.v > 0
                                             \/ r.den = Inf(1)
                                        ELSE r.den # Fin(0))
        result == [i \in DOMAIN kept |->
                      Row(kept[i].date, float_div(kept[i].num, kept[i].den))]
    IN  IF aligned = <<>> \/ kept = <<>> THEN empty_series ELSE finite_rows(result)

\* add_series, multiply_series: a sum or product with a null or non-finite
\* operand is not finite and is filtered out
both_finite(aligned) ==
    SelectSeq(aligned, LAMBDA r : r.num.k = "fin" /\ r.den.k = "fin")

add_series(left, right) ==
    LET kept == both_finite(join_series(left, right))
    IN  [i \in DOMAIN kept |-> Row(kept[i].date, Fin(kept[i].num.v + kept[i].den.v))]

multiply_series(left, right) ==
    LET kept == both_finite(join_series(left, right))
    IN  [i \in DOMAIN kept |-> Row(kept[i].date, Fin(kept[i].num.v * kept[i].den.v))]

latest_value(series) ==
    {IF rows = <<>> THEN None ELSE rows[Len(rows)].value : rows \in series_rows(series)}

\* a missing currency code: None or the empty string
NoCurrency == ""

\* the frames build_valuation aligns to the prices
daily_frames(prices, s) ==
    {[eps |-> d1, sales |-> d2, ebitda |-> d3, book |-> d4, net_debt |-> d5,
      shares |-> d6, fcf_total |-> d7, net_debt_total |-> d8, shares_latest |-> d9] :
        d1 \in align_to_prices(s.eps_ttm, prices),
        d2 \in align_to_prices(s.sales_ttm, prices),
        d3 \in align_to_prices(s.ebitda_ttm, prices),
        d4 \in align_to_prices(s.book_per_share, prices),
        d5 \in align_to_prices(s.net_debt_per_share, prices),
        d6 \in align_to_prices(s.shares_outstanding, prices),
        d7 \in align_to_prices(s.fcf_ttm_total, prices),
        d8 \in align_to_prices(s.net_debt_total, prices),
        d9 \in align_to_prices(s.shares_outstanding, prices)}

metric_dates(frames) ==
    UNION {{frames[i][j].date.v : j \in DOMAIN frames[i]} : i \in DOMAIN frames}

SetMin(S) == CHOOSE x \in S : \A y \in S : x <= y

\* the valuation dict, with the snapshot frames build_valuation holds after
\* convert_series
valuation_payloads(prices, s, d, currency) ==
    LET pe_daily == valuation_divide_series(prices, d.eps, TRUE)
        ps_daily == valuation_divide_series(prices, d.sales, TRUE)
        pb_daily == valuation_divide_series(prices, d.book, TRUE)
        ev_to_ebitda_daily ==
            valuation_divide_series(add_series(prices, d.net_debt), d.ebitda, TRUE)
        market_cap_daily == multiply_series(prices, d.shares)
        dates == metric_dates(<<pe_daily, ps_daily, pb_daily, ev_to_ebitda_daily>>)
    IN  UNION {
          {[window |->
                [start |-> IF dates = {} THEN None ELSE Fin(date_iso(SetMin(dates))),
                 end |-> IF price_rows = <<>> THEN None
                         ELSE Fin(date_iso(price_rows[Len(price_rows)].date.v)),
                 price_points |-> Len(price_rows),
                 valuation_days |-> Cardinality(dates),
                 snapshot_points |->
                     [eps_ttm |-> Len(s.eps_ttm), sales_ttm |-> Len(s.sales_ttm),
                      ebitda_ttm |-> Len(s.ebitda_ttm),
                      book_per_share |-> Len(s.book_per_share),
                      net_debt_per_share |-> Len(s.net_debt_per_share),
                      shares_outstanding |-> Len(s.shares_outstanding)]],
             current |->
                [price |-> IF price_rows = <<>> THEN None
                           ELSE price_rows[Len(price_rows)].value,
                 market_cap |-> market_cap],
             metrics |-> [pe |-> pe, ps |-> ps, pb |-> pb, ev_to_ebitda |-> ev],
             history |-> [pe |-> h1, ps |-> h2, pb |-> h3, ev_to_ebitda |-> h4],
             percentiles |-> [pe |-> p1, ps |-> p2, pb |-> p3, ev_to_ebitda |-> p4],
             currency |-> currency,
             dcf |-> compute_dcf(fcf_latest, net_debt_latest, shares_latest),
             snapshots |-> s] :
              h1 \in series_to_dict(pe_daily), h2 \in series_to_dict(ps_daily),
              h3 \in series_to_dict(pb_daily),
              h4 \in series_to_dict(ev_to_ebitda_daily),
              p1 \in percentile(pe, pe_daily), p2 \in percentile(ps, ps_daily),
              p3 \in percentile(pb, pb_daily),
              p4 \in percentile(ev, ev_to_ebitda_daily)} :
          price_rows \in series_rows(prices),
          market_cap \in latest_value(market_cap_daily),
          pe \in latest_value(pe_daily), ps \in latest_value(ps_daily),
          pb \in latest_value(pb_daily), ev \in latest_value(ev_to_ebitda_daily),
          fcf_latest \in latest_value(d.fcf_total),
          net_debt_latest \in latest_value(d.net_debt_total),
          shares_latest \in latest_value(d.shares_latest)}

fx_no_fallback(market_currency, financial_currency, fetched) ==
    LET mismatch == /\ market_currency # NoCurrency
                    /\ financial_currency # NoCurrency
                    /\ market_currency # financial_currency
    IN  [fx_rate |-> IF mismatch THEN fetched ELSE Fin(1),
         currency_mismatch |-> mismatch]

\* the currency handling of build_valuation: fetched is what fetch_fx_rate
\* answers when it is called
fx_fallback(market_currency, financial_currency, fetched) ==
    LET mismatch == /\ market_currency # NoCurrency
                    /\ financial_currency # NoCurrency
                    /\ market_currency # financial_currency
        failed == mismatch /\ fetched = None
    IN  [fx_rate |-> IF mismatch /\ ~failed THEN fetched ELSE Fin(1),
         currency_mismatch |-> mismatch /\ ~failed]

build_valuation(data, analysis, fetched) ==
    LET market_currency == data.info.currency
        financial_currency ==
            IF data.info.financialCurrency # NoCurrency
            THEN data.info.financialCurrency ELSE market_currency
        fx == fx_fallback(market_currency, financial_currency, fetched)
        convert(series) == convert_series(series, fx.fx_rate, fx.currency_mismatch)
        currency == [market |-> market_currency, financial |-> financial_currency,
                     fx_rate |-> fx.fx_rate,
                     converted |-> fx.currency_mismatch /\ fx.fx_rate # None]
    IN  UNION {
          LET s == [eps_ttm |-> convert(s1), sales_ttm |-> convert(s2),
                    ebitda_ttm |-> convert(s3), book_per_share |-> convert(s4),
                    net_debt_per_share |-> convert(s5), shares_outstanding |-> s6,
                    fcf_ttm_total |-> convert(s7), net_debt_total |-> convert(s8)]
          IN  UNION {valuation_payloads(prices, s, d, currency) :
                        d \in daily_frames(prices, s)} :
          prices \in to_price_series(data),
          s1 \in to_series(analysis.per_share_ttm.eps),
          s2 \in to_series(analysis.per_share_ttm.sales),
          s3 \in to_series(analysis.per_share_ttm.ebitda),
          s4 \in to_series(analysis.balance_quarterly.book_per_share),
          s5 \in to_series(analysis.balance_quarterly.net_debt_per_share),
          s6 \in to_series(analysis.balance_quarterly.shares_outstanding),
          s7 \in to_series(analysis.financials_ttm.free_cash_flow),
          s8 \in to_series(analysis.balance_quarterly.net_debt)}

\* Inputs of build_valuation: the currencies of data["info"], a price
\* history keyed by Close, the analysis maps of EPS, free cash flow, net
\* debt and share count (the other maps absent), and what the FX lookup
\* answers.
CurrencyPairs ==
    {<<"USD", "CNY">>, <<"USD", "USD">>, <<"USD", "">>, <<"", "CNY">>, <<"", "">>}

\* the analysis map with the given values at the days 1, 2, ...
DayMapping(values) ==
    [i \in DOMAIN values |-> Item(RawDate("iso", i, 0, 0), values[i])]

\* the price history with the given closes at the days start + 1, ...
PriceHistory(start, closes) ==
    IF closes = <<>> THEN <<>>
    ELSE <<Item("Close",
                Dict([i \in DOMAIN closes |->
                         Item(RawDate("iso", start + i, 0, 0), closes[i])]))>>

ValuationInput(pair, prices, eps, fcf, debt, shares, fetched) ==
    [data |-> [info |-> [currency |-> pair[1], financialCurrency |-> pair[2]],
               price_history |-> prices],
     analysis |->
         [per_share_ttm |-> [eps |-> eps, sales |-> <<>>, ebitda |-> <<>>],
          balance_quarterly |->
              [book_per_share |-> <<>>, net_debt_per_share |-> <<>>,
               shares_outstanding |-> shares, net_debt |-> debt],
          financials_ttm |-> [free_cash_flow |-> fcf]],
     fetched |-> fetched]

InitValuation ==
    /\ op = "input"
    /\ \E n \in 0..MaxSnapshots, m \in 0..MaxPrices :
           \E pair \in CurrencyPairs,
              eps \in [1..n -> {PyFloat(-1), PyFloat(2)}],
              closes \in [1..m -> {PyFloat(4)}],
              start \in {0, 1},
              fcf \in {<<>>, <<PyFloat(3)>>},
              debt \in {<<>>, <<PyFloat(1)>>},
              shares \in {<<>>, <<PyFloat(2)>>},
              fetched \in {None, Fin(2)} :
               arg = ValuationInput(pair, PriceHistory(start, closes), DayMapping(eps),
                                    DayMapping(fcf), DayMapping(debt),
                                    DayMapping(shares), fetched)
    /\ ret = None
    /\ TelemetryIdle

BuildValuation ==
    /\ op = "input"
    /\ op' = "build_valuation"
    /\ ret' \in build_valuation(arg.data, arg.analysis, arg.fetched)
    /\ UNCHANGED <<arg, data_quality_logger, fuzzy_matches, missing_fields, results,
                 validation_warnings, held_summary, files, now, fetches>>

NextValuation == BuildValuation

SpecValuation == InitValuation /\ [][NextValuation]_vars

\* market and financial currency differ and the FX lookup fails
FxLookupFailed ==
    /\ op = "build_valuation"
    /\ arg.data.info.currency # NoCurrency
    /\ arg.data.info.financialCurrency # NoCurrency
    /\ arg.data.info.currency # arg.data.info.financialCurrency
    /\ arg.fetched = None

\* the analysis map each snapshot series is read from
SnapshotMaps ==
    [eps_ttm |-> arg.analysis.per_share_ttm.eps,
     sales_ttm |-> arg.analysis.per_share_ttm.sales,
     ebitda_ttm |-> arg.analysis.per_share_ttm.ebitda,
     book_per_share |-> arg.analysis.balance_quarterly.book_per_share,
     net_debt_per_share |-> arg.analysis.balance_quarterly.net_debt_per_share,
     shares_outstanding |-> arg.analysis.balance_quarterly.shares_outstanding,
     fcf_ttm_total |-> arg.analysis.financials_ttm.free_cash_flow,
     net_debt_total |-> arg.analysis.balance_quarterly.net_debt]

\* the same data reported in the market currency: no conversion is due
SameCurrencyData ==
    [arg.data EXCEPT !.info.financialCurrency = arg.data.info.currency]

\* C14: when the currencies differ and the FX lookup fails, the valuation
\* is still returned with converted = false and fx_rate = 1.0, every
\* snapshot series holds the values of its analysis map unconverted, none
\* emptied, and but for the currency block the payload is one that the
\* same data gives when no conversion is due, so no key is lost.
C14_FxFallbackKeepsValues ==
    FxLookupFailed =>
        /\ ret.currency.converted = FALSE
        /\ ret.currency.fx_rate = Fin(1)
        /\ \A m \in DOMAIN SnapshotMaps :
               /\ ret.snapshots[m] \in to_series(SnapshotMaps[m])
               /\ Len(ret.snapshots[m]) = Len(SnapshotMaps[m])
        /\ ret.window.snapshot_points.eps_ttm = Len(SnapshotMaps.eps_ttm)
        /\ \E o \in build_valuation(SameCurrencyData, arg.analysis, None) :
               /\ o.currency.converted = FALSE
               /\ ret = [o EXCEPT !.currency = ret.currency]

\* C14's case: a failed lookup on data with two EPS snapshots, prices, a
\* cash flow, a net debt and a share count: multiples and a full DCF come out
C14_Witness ==
    /\ FxLookupFailed
    /\ Len(SnapshotMaps.eps_ttm) = 2
    /\ ret.window.snapshot_points.eps_ttm = 2
    /\ ret.history.pe # EmptyDict
    /\ ret.metrics.pe = Fin(Frac(2, 1))
    /\ "per_share" \in DOMAIN ret.dcf

\* ---------------------------------------------------------------------
\* FinancialValidator (validators.py)
\* ---------------------------------------------------------------------

\* A ValidationResult.  The message is the list of its parts: the headline
\* and, for a failure that lists issues, one part per issue.  The details
\* are a dict.
ValidationResult(passed, message, severity, details) ==
    [passed |-> passed, message |-> message, severity |-> severity,
     details |-> details]

balance_details(assets, liabilities, equity) ==
    dict_set(dict_set(dict_set(EmptyDict, "assets", assets),
                      "liabilities", liabilities), "equity", equity)

\* the balance-sheet check with a strict tolerance comparison
balance_sheet_result_strict(assets, liabilities, equity, tolerance) ==
    IF assets = None \/ liabilities = None \/ equity = None
    THEN ValidationResult(TRUE, <<"Balance sheet equation check skipped (missing data)">>,
                          "info", balance_details(assets, liabilities, equity))
    ELSE IF assets.v = 0 \/ (liabilities.v = 0 /\ equity.v = 0)
    THEN ValidationResult(TRUE, <<"Balance sheet equation check skipped (zero values)">>,
                          "info", EmptyDict)
    ELSE LET expected == liabilities.v + equity.v
             difference == Abs(assets.v - expected)
             relative_diff == Frac(difference, Abs(assets.v))
             details == dict_set(dict_set(balance_details(assets, liabilities, equity),
                                          "difference", Fin(difference)),
                                 "relative_difference", relative_diff)
         IN  IF frac_leq(relative_diff, tolerance) /\ relative_diff # tolerance
             THEN ValidationResult(TRUE, <<"Balance sheet equation validated">>,
                                   "info", details)
             ELSE ValidationResult(FALSE, <<"Balance sheet equation mismatch">>,
                                   "warning", dict_set(details, "tolerance", tolerance))

\* the result validate_balance_sheet_equation appends and returns
balance_sheet_result(assets, liabilities, equity, tolerance) ==
    IF assets = None \/ liabilities = None \/ equity = None
    THEN ValidationResult(TRUE, <<"Balance sheet equation check skipped (missing data)">>,
                          "info", balance_details(assets, liabilities, equity))
    ELSE IF assets.v = 0 \/ (liabilities.v = 0 /\ equity.v = 0)
    THEN ValidationResult(TRUE, <<"Balance sheet equation check skipped (zero values)">>,
                          "info", EmptyDict)
    ELSE LET expected == liabilities.v + equity.v
             difference == Abs(assets.v - expected)
             relative_diff == Frac(difference, Abs(assets.v))
             details == dict_set(dict_set(balance_details(assets, liabilities, equity),
                                          "difference", Fin(difference)),
                                 "relative_difference", relative_diff)
         IN  IF frac_leq(relative_diff, tolerance)
             THEN ValidationResult(TRUE, <<"Balance sheet equation validated">>,
                                   "info", details)
             ELSE ValidationResult(FALSE, <<"Balance sheet equation mismatch">>,
                                   "warning", dict_set(details, "tolerance", tolerance))

ValidateBalanceSheetEquation(assets, liabilities, equity, tolerance) ==
    LET result == balance_sheet_result(assets, liabilities, equity, tolerance)
    IN  /\ results' = Append(results, result)
        /\ ret' = result
        /\ arg' = [assets |-> assets, liabilities |-> liabilities, equity |-> equity,
                   tolerance |-> tolerance]
        /\ op' = "validate_balance_sheet_equation"
        /\ UNCHANGED <<data_quality_logger, fuzzy_matches, missing_fields,
                 validation_warnings, held_summary, files, now, fetches>>

\* float comparison a < b on margins
margin_less(a, b) == ~frac_leq(b.v, a.v)

margins_dict(gross_margin, operating_margin, net_margin) ==
    dict_set(dict_set(dict_set(EmptyDict, "gross", gross_margin),
                      "operating", operating_margin), "net", net_margin)

margin_issue(first, second, text) ==
    IF first # None /\ second # None /\ margin_less(first, second)
    THEN <<text>> ELSE <<>>

\* the margin check without the gross-against-net comparison
margin_result_adjacent_only(gross_margin, operating_margin, net_margin) ==
    LET available == {m \in {"gross", "operating", "net"} :
                        margins_dict(gross_margin, operating_margin, net_margin)[m] # None}
        issues == margin_issue(gross_margin, operating_margin,
                               "Gross margin < Operating margin")
                  \o margin_issue(operating_margin, net_margin,
                                  "Operating margin < Net margin")
    IN  IF Cardinality(available) < 2
        THEN ValidationResult(TRUE, <<"Margin consistency check skipped (insufficient data)">>,
                              "info", EmptyDict)
        ELSE IF Len(issues) = 0
        THEN ValidationResult(TRUE, <<"Margin consistency validated">>, "info",
                              margins_dict(gross_margin, operating_margin, net_margin))
        ELSE ValidationResult(FALSE, <<"Margin consistency issues">> \o issues, "warning",
                              margins_dict(gross_margin, operating_margin, net_margin))

\* the result validate_margin_consistency appends and returns; the parts
\* of a failure message after the headline are the issues joined by "; "
margin_result(gross_margin, operating_margin, net_margin) ==
    LET available == {m \in {"gross", "operating", "net"} :
                        margins_dict(gross_margin, operating_margin, net_margin)[m] # None}
        issues == margin_issue(gross_margin, operating_margin,
                               "Gross margin < Operating margin")
                  \o margin_issue(operating_margin, net_margin,
                                  "Operating margin < Net margin")
                  \o margin_issue(gross_margin, net_margin,
                                  "Gross margin < Net margin")
    IN  IF Cardinality(available) < 2
        THEN ValidationResult(TRUE, <<"Margin consistency check skipped (insufficient data)">>,
                              "info", EmptyDict)
        ELSE IF Len(issues) = 0
        THEN ValidationResult(TRUE, <<"Margin consistency validated">>, "info",
                              margins_dict(gross_margin, operating_margin, net_margin))
        ELSE ValidationResult(FALSE, <<"Margin consistency issues">> \o issues, "warning",
                              margins_dict(gross_margin, operating_margin, net_margin))

ValidateMarginConsistency(gross_margin, operating_margin, net_margin) ==
    LET result == margin_result(gross_margin, operating_margin, net_margin)
    IN  /\ results' = Append(results, result)
        /\ ret' = result
        /\ arg' = [gross_margin |-> gross_margin, operating_margin |-> operating_margin,
                   net_margin |-> net_margin]
        /\ op' = "validate_margin_consistency"
        /\ UNCHANGED <<data_quality_logger, fuzzy_matches, missing_fields,
                 validation_warnings, held_summary, files, now, fetches>>

\* sorted(dates) on a list of datetimes
RECURSIVE sorted_dates(_)
sorted_dates(dates) ==
    IF dates = <<>> THEN <<>>
    ELSE LET i == CHOOSE j \in 1..Len(dates) :
                    \A k \in 1..Len(dates) : dates[j].v <= dates[k].v
         IN  <<dates[i]>> \o sorted_dates(Remove(dates, i))

\* (later - earlier).days for later >= earlier
days_between(earlier, later) == (later.v - earlier.v) \div TodPerDay

QuarterlyExpectedDays == 90
QuarterlyMinDays == 85
QuarterlyMaxDays == 95
AnnualExpectedDays == 365
AnnualMinDays == 360
AnnualMaxDays == 370

expected_days(expected_frequency) ==
    IF expected_frequency = "quarterly" THEN QuarterlyExpectedDays ELSE AnnualExpectedDays
min_days(expected_frequency, tolerance_days) ==
    (IF expected_frequency = "quarterly" THEN QuarterlyMinDays ELSE AnnualMinDays)
    - tolerance_days
max_days(expected_frequency, tolerance_days) ==
    (IF expected_frequency = "quarterly" THEN QuarterlyMaxDays ELSE AnnualMaxDays)
    + tolerance_days

RECURSIVE intervals_of(_, _)
intervals_of(sorted, i) ==
    IF i > Len(sorted) THEN <<>>
    ELSE <<days_between(sorted[i - 1], sorted[i])>> \o intervals_of(sorted, i + 1)

RECURSIVE irregular_intervals_of(_, _, _, _)
irregular_intervals_of(sorted, i, lowest, highest) ==
    IF i > Len(sorted) THEN <<>>
    ELSE LET diff == days_between(sorted[i - 1], sorted[i])
         IN  (IF ~(lowest <= diff /\ diff <= highest)
              THEN <<[from |-> sorted[i - 1], to |-> sorted[i], days |-> diff]>>
              ELSE <<>>)
             \o irregular_intervals_of(sorted, i + 1, lowest, highest)

\* what validate_time_series_frequency does: it raises ValueError, or appends
\* and returns a result
frequency_outcome(dates, expected_frequency, tolerance_days) ==
    IF Len(dates) < 2
    THEN [raised |-> FALSE, result |->
            ValidationResult(TRUE, <<"Time series frequency check skipped (insufficient data points)">>,
                             "info", EmptyDict)]
    ELSE IF expected_frequency \notin {"quarterly", "annual"}
    THEN [raised |-> TRUE, result |-> Raised("ValueError")]
    ELSE LET sorted == sorted_dates(dates)
             intervals == intervals_of(sorted, 2)
             irregular_intervals ==
                 irregular_intervals_of(sorted, 2,
                                        min_days(expected_frequency, tolerance_days),
                                        max_days(expected_frequency, tolerance_days))
             details == dict_set(dict_set(EmptyDict, "expected_frequency", expected_frequency),
                                 "average_interval_days",
                                 Frac(SumTo(intervals, Len(intervals)), Len(intervals)))
         IN  [raised |-> FALSE, result |->
                IF Len(irregular_intervals) = 0
                THEN ValidationResult(TRUE, <<"Time series frequency is regular">>, "info",
                                      dict_set(details, "intervals", intervals))
                ELSE ValidationResult(FALSE, <<"irregular intervals detected">>, "warning",
                                      dict_set(details, "irregular_intervals",
                                               irregular_intervals))]

ValidateTimeSeriesFrequency(dates, expected_frequency, tolerance_days) ==
    LET outcome == frequency_outcome(dates, expected_frequency, tolerance_days)
    IN  /\ results' = IF outcome.raised THEN results ELSE Append(results, outcome.result)
        /\ ret' = outcome.result
        /\ arg' = [dates |-> dates, expected_frequency |-> expected_frequency,
                   tolerance_days |-> tolerance_days]
        /\ op' = "validate_time_series_frequency"
        /\ UNCHANGED <<data_quality_logger, fuzzy_matches, missing_fields,
                 validation_warnings, held_summary, files, now, fetches>>

\* ---------------------------------------------------------------------
\* One validation call on a fresh FinancialValidator
\* ---------------------------------------------------------------------

MaxDates == 3
DefaultToleranceDays == 10

BalanceAmounts ==
    {None, Fin(0), Fin(30), Fin(39), Fin(40), Fin(50), Fin(60), Fin(100), Fin(-100)}
Tolerances == {Frac(1, 100), Frac(1, 10)}
MarginValues == {None} \cup {Fin(Frac(n, 10)) : n \in {-1, 2, 5}}
GapDays == {74, 75, 79, 90, 101, 106, 349, 350, 354, 365, 376, 381}
Frequencies == {"quarterly", "annual", "monthly"}

\* The datetimes with the given gaps in days between consecutive ones, the
\* last one at the given time of day, in ascending or descending order
DatesFrom(gaps, tod, descending) ==
    LET n == Len(gaps) + 1
        ascending == [i \in 1..n |->
                        Dt(TodPerDay * (1 + SumTo(gaps, i - 1))
                           + (IF i = n THEN tod ELSE 0))]
    IN  IF descending THEN [i \in 1..n |-> ascending[n + 1 - i]] ELSE ascending

InitChecks ==
    /\ op = "input"
    /\ arg = None
    /\ ret = None
    /\ TelemetryIdle

CheckBalanceSheet ==
    \E assets \in BalanceAmounts, liabilities \in BalanceAmounts,
       equity \in BalanceAmounts, tolerance \in Tolerances :
        ValidateBalanceSheetEquation(assets, liabilities, equity, tolerance)

CheckMargins ==
    \E gross_margin \in MarginValues, operating_margin \in MarginValues,
       net_margin \in MarginValues :
        ValidateMarginConsistency(gross_margin, operating_margin, net_margin)

CheckFrequency ==
    \E expected_frequency \in Frequencies, tolerance_days \in {0, DefaultToleranceDays} :
        \/ ValidateTimeSeriesFrequency(<<>>, expected_frequency, tolerance_days)
        \/ \E n \in 1..MaxDates : \E gaps \in [1..(n - 1) -> GapDays] :
             \E tod \in {0, TodPerDay - 1}, descending \in BOOLEAN :
                ValidateTimeSeriesFrequency(DatesFrom(gaps, tod, descending),
                                            expected_frequency, tolerance_days)

NextChecks ==
    /\ op = "input"
    /\ (CheckBalanceSheet \/ CheckMargins \/ CheckFrequency)

SpecChecks == InitChecks /\ [][NextChecks]_vars

SkippedMessages ==
    {<<"Balance sheet equation check skipped (missing data)">>,
     <<"Balance sheet equation check skipped (zero values)">>}

\* C16: validate_balance_sheet_equation skips the check, appending a passed
\* result of severity info, whenever any one of assets, liabilities or
\* equity is missing or zero
C16_SkippedOnAnyMissingOrZero ==
    (/\ op = "validate_balance_sheet_equation"
     /\ \E x \in {arg.assets, arg.liabilities, arg.equity} : x \in {None, Fin(0)})
    => /\ ret.passed
       /\ ret.severity = "info"
       /\ ret.message \in SkippedMessages
       /\ results = <<ret>>

RelativeDifference(assets, liabilities, equity) ==
    Frac(Abs(assets.v - (liabilities.v + equity.v)), Abs(assets.v))

\* C17: for non-missing, non-zero inputs validate_balance_sheet_equation
\* passes exactly when |assets - (liabilities + equity)| / |assets| <=
\* tolerance, and a failing result carries that relative difference in its
\* details; 100/60/40 passes at 1%, 100/60/30 fails with 0.10
C17_PassesWithinTolerance ==
    (/\ op = "validate_balance_sheet_equation"
     /\ \A x \in {arg.assets, arg.liabilities, arg.equity} : x \notin {None, Fin(0)})
    => LET relative == RelativeDifference(arg.assets, arg.liabilities, arg.equity)
       IN  /\ ret.passed <=> frac_leq(relative, arg.tolerance)
           /\ ~ret.passed => ret.details["relative_difference"] = relative
           /\ (arg.assets = Fin(100) /\ arg.liabilities = Fin(60)
               /\ arg.tolerance = Frac(1, 100))
              => /\ arg.equity = Fin(40) => ret.passed
                 /\ arg.equity = Fin(30)
                    => ~ret.passed /\ ret.details["relative_difference"] = Frac(1, 10)
           /\ results = <<ret>>

\* C17 witness: assets=100, liabilities=60, equity=30 was checked at 1%
\* tolerance and failed
C17_Witness ==
    /\ op = "validate_balance_sheet_equation"
    /\ arg = [assets |-> Fin(100), liabilities |-> Fin(60), equity |-> Fin(30),
              tolerance |-> Frac(1, 100)]
    /\ ~ret.passed
    /\ ret.severity = "warning"

\* C17 witness: a relative difference equal to the tolerance passed
C17_WitnessAtTolerance ==
    /\ op = "validate_balance_sheet_equation"
    /\ arg = [assets |-> Fin(100), liabilities |-> Fin(60), equity |-> Fin(39),
              tolerance |-> Frac(1, 100)]
    /\ ret.passed
    /\ ret.message = <<"Balance sheet equation validated">>

\* the gaps in whole days between consecutive dates of the call, in
\* ascending order of date
GapsOfCall == intervals_of(sorted_dates(arg.dates), 2)

OutsideBand(diff) ==
    \/ diff < expected_days(arg.expected_frequency) - arg.tolerance_days
    \/ diff > expected_days(arg.expected_frequency) + arg.tolerance_days

\* C18: validate_time_series_frequency flags a gap as irregular exactly
\* when it lies outside expectedInterval +- tolerance days, fails iff some
\* gap is irregular, and lists one entry per irregular gap
C18_IrregularOutsideExpectedBand ==
    (/\ op = "validate_time_series_frequency"
     /\ arg.expected_frequency \in {"quarterly", "annual"}
     /\ Len(arg.dates) >= 2)
    => LET irregular == {i \in DOMAIN GapsOfCall : OutsideBand(GapsOfCall[i])}
       IN  /\ ret.passed <=> irregular = {}
           /\ ~ret.passed =>
                 /\ Len(ret.details["irregular_intervals"]) = Cardinality(irregular)
                 /\ \A i \in irregular :
                      \E e \in DOMAIN ret.details["irregular_intervals"] :
                         ret.details["irregular_intervals"][e].days = GapsOfCall[i]

MarginPairs ==
    {<<"gross", "operating", "Gross margin < Operating margin">>,
     <<"operating", "net", "Operating margin < Net margin">>,
     <<"gross", "net", "Gross margin < Net margin">>}

MarginOfCall(m) ==
    IF m = "gross" THEN arg.gross_margin
    ELSE IF m = "operating" THEN arg.operating_margin ELSE arg.net_margin

AvailableMargins == {m \in {"gross", "operating", "net"} : MarginOfCall(m) # None}

ViolatedPairs ==
    {p \in MarginPairs :
        /\ p[1] \in AvailableMargins
        /\ p[2] \in AvailableMargins
        /\ MarginOfCall(p[1]).v.num * MarginOfCall(p[2]).v.den
           < MarginOfCall(p[2]).v.num * MarginOfCall(p[1]).v.den}

\* C19: validate_margin_consistency is skipped (passed, info) with fewer
\* than two margins available; otherwise it fails exactly when some
\* available pair violates gross >= operating >= net, and the failure
\* message holds one separate issue per violated comparison
C19_MarginOrderingIssues ==
    op = "validate_margin_consistency"
    => /\ Cardinality(AvailableMargins) < 2
          => /\ ret.passed
             /\ ret.severity = "info"
             /\ ret.message = <<"Margin consistency check skipped (insufficient data)">>
       /\ Cardinality(AvailableMargins) >= 2
          => /\ ret.passed <=> ViolatedPairs = {}
             /\ ~ret.passed
                => /\ Len(ret.message) = 1 + Cardinality(ViolatedPairs)
                   /\ \A p \in ViolatedPairs :
                        \E i \in 2..Len(ret.message) : ret.message[i] = p[3]
       /\ results = <<ret>>

\* C19 witness: gross and net margin were available, operating margin was
\* not, gross < net, and the check failed with exactly that one issue
C19_Witness ==
    /\ op = "validate_margin_consistency"
    /\ arg.operating_margin = None
    /\ arg.gross_margin = Fin(Frac(2, 10))
    /\ arg.net_margin = Fin(Frac(5, 10))
    /\ ~ret.passed
    /\ ret.message = <<"Margin consistency issues", "Gross margin < Net margin">>

\* C19 witness: all three margins were available and all three
\* comparisons were violated
C19_WitnessAllViolated ==
    /\ op = "validate_margin_consistency"
    /\ Cardinality(AvailableMargins) = 3
    /\ ~ret.passed
    /\ Len(ret.message) = 4

\* ---------------------------------------------------------------------
\* validate_data_range, get_summary, reset and sequences of checks
\* ---------------------------------------------------------------------

range_details(value, min_value, max_value) ==
    dict_set(dict_set(dict_set(EmptyDict, "value", value), "min", min_value),
             "max", max_value)

range_issues(value, min_value, max_value) ==
    (IF min_value # None /\ margin_less(value, min_value)
     THEN <<"value < minimum">> ELSE <<>>)
    \o (IF max_value # None /\ margin_less(max_value, value)
        THEN <<"value > maximum">> ELSE <<>>)

\* the range check that records a failure with severity error
range_result_as_error(value, min_value, max_value, field_name) ==
    IF value = None
    THEN ValidationResult(TRUE, <<"Range check skipped (no value)", field_name>>,
                          "info", EmptyDict)
    ELSE IF Len(range_issues(value, min_value, max_value)) = 0
    THEN ValidationResult(TRUE, <<"is within valid range", field_name>>, "info",
                          range_details(value, min_value, max_value))
    ELSE ValidationResult(FALSE,
                          <<"Range validation failed", field_name>>
                          \o range_issues(value, min_value, max_value),
                          "error", range_details(value, min_value, max_value))

\* the result validate_data_range appends and returns; the message parts
\* are the headline, the field name and the issues
range_result(value, min_value, max_value, field_name) ==
    IF value = None
    THEN ValidationResult(TRUE, <<"Range check skipped (no value)", field_name>>,
                          "info", EmptyDict)
    ELSE IF Len(range_issues(value, min_value, max_value)) = 0
    THEN ValidationResult(TRUE, <<"is within valid range", field_name>>, "info",
                          range_details(value, min_value, max_value))
    ELSE ValidationResult(FALSE,
                          <<"Range validation failed", field_name>>
                          \o range_issues(value, min_value, max_value),
                          "warning", range_details(value, min_value, max_value))

ValidateDataRange(value, min_value, max_value, field_name) ==
    LET result == range_result(value, min_value, max_value, field_name)
    IN  /\ results' = Append(results, result)
        /\ ret' = result
        /\ arg' = [value |-> value, min_value |-> min_value, max_value |-> max_value,
                   field_name |-> field_name]
        /\ op' = "validate_data_range"
        /\ UNCHANGED <<data_quality_logger, fuzzy_matches, missing_fields,
                 validation_warnings, held_summary, files, now, fetches>>

\* FinancialValidator.get_summary over the list of results
FinancialValidator_get_summary(rs) ==
    LET total == Len(rs)
        passed == Cardinality({i \in DOMAIN rs : rs[i].passed})
        by_severity == [s \in {"info", "warning", "error"} |->
                          SelectSeq(rs, LAMBDA r : r.severity = s)]
    IN  [total_checks |-> total,
         passed |-> passed,
         failed |-> total - passed,
         by_severity |-> [s \in {"info", "warning", "error"} |-> Len(by_severity[s])],
         results |-> [i \in DOMAIN rs |->
                        [passed |-> rs[i].passed, message |-> rs[i].message,
                         severity |-> rs[i].severity, details |-> rs[i].details]]]

GetSummary ==
    /\ ret' = FinancialValidator_get_summary(results)
    /\ arg' = None
    /\ op' = "get_summary"
    /\ UNCHANGED <<results, data_quality_logger, fuzzy_matches, missing_fields,
                 validation_warnings, held_summary, files, now, fetches>>

Reset ==
    /\ results' = <<>>
    /\ ret' = None
    /\ arg' = None
    /\ op' = "reset"
    /\ UNCHANGED <<data_quality_logger, fuzzy_matches, missing_fields,
                 validation_warnings, held_summary, files, now, fetches>>

MaxChecks == 3

InitValidator ==
    /\ op = "init"
    /\ arg = None
    /\ ret = None
    /\ TelemetryIdle

RunBalanceSheet ==
    \E amounts \in {<<None, Fin(60), Fin(40)>>, <<Fin(100), Fin(0), Fin(0)>>,
                    <<Fin(100), Fin(60), Fin(40)>>, <<Fin(100), Fin(60), Fin(30)>>} :
        ValidateBalanceSheetEquation(amounts[1], amounts[2], amounts[3], Frac(1, 100))

RunMargins ==
    \E net_margin \in {None, Fin(Frac(2, 10)), Fin(Frac(5, 10))} :
        ValidateMarginConsistency(Fin(Frac(2, 10)), None, net_margin)

RunFrequency ==
    \E dates \in {<<Dt(TodPerDay)>>, DatesFrom(<<90>>, 0, FALSE),
                  DatesFrom(<<106>>, 0, FALSE)},
       expected_frequency \in {"quarterly", "monthly"} :
        ValidateTimeSeriesFrequency(dates, expected_frequency, DefaultToleranceDays)

RunDataRange ==
    \E value \in {None, Fin(Frac(5, 10)), Fin(Frac(-2, 1))} :
        ValidateDataRange(value, Fin(Frac(-1, 1)), Fin(Frac(1, 1)), "net_margin")

NextValidator ==
    \/ /\ Len(results) < MaxChecks
       /\ (RunBalanceSheet \/ RunMargins \/ RunFrequency \/ RunDataRange)
    \/ GetSummary
    \/ Reset

SpecValidator == InitValidator /\ [][NextValidator]_vars

ValidateOps ==
    {"validate_balance_sheet_equation", "validate_margin_consistency",
     "validate_time_series_frequency", "validate_data_range"}

SummaryConsistent(summary) ==
    /\ summary.total_checks = Len(results)
    /\ summary.total_checks = summary.passed + summary.failed
    /\ summary.total_checks = summary.by_severity["info"] + summary.by_severity["warning"]
                              + summary.by_severity["error"]
    /\ summary.by_severity["error"] = 0
    /\ summary.passed = summary.by_severity["info"]
    /\ summary.failed = summary.by_severity["warning"]
    /\ \A i \in DOMAIN summary.results :
         summary.results[i].severity
            = (IF summary.results[i].passed THEN "info" ELSE "warning")

\* C20: after any sequence of validate_* calls with reset interleaved,
\* get_summary has total_checks = number of checks run since the last
\* reset = passed + failed = info + warning + error counts, every failed
\* result is a warning, every passed one is info, and the error count is 0.
\* The number of checks since the last reset is the length of results:
\* every validate_* call that returns appends exactly its one result, a
\* reset empties the list, get_summary leaves it alone.
C20_SummaryCountsChecks ==
    /\ [](SummaryConsistent(FinancialValidator_get_summary(results))
          /\ (op = "get_summary" => ret = FinancialValidator_get_summary(results)))
    /\ [][/\ (op' \in ValidateOps /\ "passed" \in DOMAIN ret')
             => results' = Append(results, ret')
          /\ (op' \in ValidateOps /\ "passed" \notin DOMAIN ret')
             => results' = results
          /\ op' = "reset" => results' = <<>>
          /\ op' = "get_summary" => results' = results]_vars

\* C20 witness: get_summary was called with MaxChecks results recorded,
\* some passed and some failed
C20_Witness ==
    /\ op = "get_summary"
    /\ ret.total_checks = MaxChecks
    /\ ret.passed >= 1
    /\ ret.failed >= 1
    /\ ret.by_severity["warning"] = ret.failed

\* ---------------------------------------------------------------------
\* Reproducibility of build_analysis
\* ---------------------------------------------------------------------

\* C21: two invocations of build_analysis on the same payload in the same
\* process, with the same configured data-quality logger, return the same
\* analysis payload (generated_at is not modelled), including an identical
\* data_quality.field_matching block
C21_SameOutputOnSamePayload ==
    [][(op = "build_analysis" /\ op' = "build_analysis" /\ arg' = arg)
          => ret' = ret]_vars

\* the part of C21 outside the field_matching block: the second run
\* returns the first run's payload apart from data_quality.field_matching
C21_SameOutputApartFromFieldMatching ==
    [][(op = "build_analysis" /\ op' = "build_analysis" /\ arg' = arg)
          => ret' = [ret EXCEPT !.field_matching = ret'.field_matching]]_vars

\* ---------------------------------------------------------------------
\* Round trip: series_to_dict(series_from_mapping(m))
\* ---------------------------------------------------------------------

InitRoundTrip ==
    /\ op = "input"
    /\ arg \in {[kind |-> "mapping", items |-> m] : m \in Mappings}
    /\ ret = EmptyDict
    /\ TelemetryIdle

RoundTrip ==
    /\ op = "input"
    /\ \E df \in series_from_mapping(arg.items) :
          \E d \in series_to_dict(df) : ret' = d
    /\ op' = "series_to_dict"
    /\ UNCHANGED <<arg, data_quality_logger, fuzzy_matches, missing_fields, results,
                 validation_warnings, held_summary, files, now, fetches>>

NextRoundTrip == RoundTrip

SpecRoundTrip == InitRoundTrip /\ [][NextRoundTrip]_vars

\* the items of the mapping whose key parses as a date and whose value
\* parses to a finite number
ParseableItems ==
    {i \in 1..Len(arg.items) :
        /\ parse_datetime(arg.items[i].key) # None
        /\ is_finite(to_float(arg.items[i].value))}

\* C22: series_to_dict(series_from_mapping(m)) holds, for every key of m
\* whose date and value both parse, an entry under that key's calendar day
\* with the same numeric value, also for keys that share a calendar day
\* and differ in time of day
C22_RoundTripKeepsEveryPoint ==
    op = "series_to_dict" =>
        \A i \in ParseableItems :
            /\ arg.items[i].key.day \in DOMAIN ret
            /\ ret[arg.items[i].key.day] = to_float(arg.items[i].value)

OneKeyPerDay ==
    \A i, j \in ParseableItems :
        date_iso(parse_datetime(arg.items[i].key).v)
            = date_iso(parse_datetime(arg.items[j].key).v) => i = j

\* the round trip on mappings whose parseable keys fall on distinct days
\* and carry no UTC offset
C22_RoundTripOnDistinctDays ==
    (/\ op = "series_to_dict"
     /\ OneKeyPerDay
     /\ \A i \in ParseableItems : arg.items[i].key.off = 0) =>
        \A i \in ParseableItems :
            /\ arg.items[i].key.day \in DOMAIN ret
            /\ ret[arg.items[i].key.day] = to_float(arg.items[i].value)

\* ---------------------------------------------------------------------
\* The report pipeline (run_report.py)
\* ---------------------------------------------------------------------

MaxPipelineRuns == 2
MaxClock == 1

SetMax(S) == CHOOSE x \in S : \A y \in S : y <= x

\* the position the next write takes among all writes
next_seq(fs) == 1 + SetMax({fs[p].seq : p \in Paths})

\* path.open("w") / write_text: the file holds the content, stamped now
write_file(fs, path, content, time) ==
    [fs EXCEPT ![path] = [exists |-> TRUE, mtime |-> time, seq |-> next_seq(fs),
                          content |-> content]]

\* Path.mkdir(exist_ok=True): an existing directory is left as it is
mkdir(fs, path, time) ==
    IF fs[path].exists THEN fs ELSE write_file(fs, path, 0, time)

\* a record handed to the FileHandler: appended to the log file of the run
log_record(fs, time) ==
    [fs EXCEPT !["log_file"].mtime = time]

\* setup_logging(log_to_file=True): the logs directory is made, the log
\* file of the run is created in it and the first record is written
setup_logging(fs, time) ==
    LET made == mkdir(fs, "logs", time)
        entered == [made EXCEPT !["logs"].mtime = time,
                                !["logs"].content = made["logs"].content + 1]
    IN  write_file(entered, "log_file", entered["logs"].content, time)

\* is_fresh: the data file exists and was fetched at most max_age_hours
\* ago; its fetched_at is the time of its write
is_fresh(fs, path, max_age_hours, time) ==
    /\ max_age_hours > 0
    /\ fs[path].exists
    /\ time - fs[path].mtime <= max_age_hours

needs_update(fs, output_path, input_mtimes) ==
    IF ~fs[output_path].exists THEN TRUE
    ELSE fs[output_path].mtime < SetMax(input_mtimes \cup {0})

\* the chart files are written together and are one path of the model
charts_need_update(fs, charts_dir, analysis_mtime) ==
    IF ~fs[charts_dir].exists THEN TRUE
    ELSE fs[charts_dir].mtime < analysis_mtime

Args ==
    [dry_run : BOOLEAN, refresh : BOOLEAN, max_age_hours : {0, 1},
     skip_valuation : BOOLEAN, skip_analyst : BOOLEAN, skip_charts : BOOLEAN,
     skip_report : BOOLEAN]

\* The memory of a run: the payloads it holds (the fetch each derives
\* from, 0 for none), the artifacts it wrote and the ones it read back
\* instead of regenerating, and how it ended
Memory(data_payload, analysis_payload, valuation_payload, analyst_payload,
       wrote, reused, status) ==
    [data_payload |-> data_payload, analysis_payload |-> analysis_payload,
     valuation_payload |-> valuation_payload, analyst_payload |-> analyst_payload,
     wrote |-> wrote, reused |-> reused, status |-> status]

NoMemory == Memory(0, 0, 0, 0, {}, {}, "running")

TelemetryKept ==
    UNCHANGED <<fuzzy_matches, missing_fields, results, validation_warnings,
                held_summary>>

InitPipeline ==
    /\ op = "input"
    /\ arg = None
    /\ ret = NoMemory
    /\ TelemetryIdle

\* the process starts with its command line
StartRun ==
    /\ op \in {"input", "exit"}
    /\ files["logs"].content < MaxPipelineRuns
    /\ arg' \in Args
    /\ ret' = NoMemory
    /\ op' = "main"
    /\ UNCHANGED <<data_quality_logger, files, now, fetches>>
    /\ TelemetryKept

\* main, lines 128-129
SetupLogging ==
    /\ op = "main"
    /\ files' = setup_logging(files, now)
    /\ data_quality_logger' = "configured"
    /\ op' = "setup_logging"
    /\ UNCHANGED <<arg, ret, now, fetches>>
    /\ TelemetryKept

\* main, lines 151-186
DryRun ==
    /\ op = "setup_logging"
    /\ arg.dry_run
    /\ files' = log_record(files, now)
    /\ ret' = [ret EXCEPT !.status = "returned"]
    /\ op' = "exit"
    /\ UNCHANGED <<arg, data_quality_logger, now, fetches>>
    /\ TelemetryKept

\* main, lines 204-235: the output directory is made, then the data file is
\* read from the cache, or fetched and rewritten; a fetch may raise
FetchOrUseCache ==
    /\ op = "setup_logging"
    /\ ~arg.dry_run
    /\ LET made == log_record(mkdir(files, "output_dir", now), now)
           use_cache == ~arg.refresh /\ is_fresh(made, "data", arg.max_age_hours, now)
       IN  IF use_cache
           THEN /\ files' = made
                /\ fetches' = fetches
                /\ ret' = [ret EXCEPT !.data_payload = made["data"].content]
                /\ op' = "fetch"
           ELSE /\ fetches' = fetches + 1
                /\ \/ /\ files' = write_file(made, "data", fetches + 1, now)
                      /\ ret' = [ret EXCEPT !.data_payload = fetches + 1,
                                            !.wrote = {"data"}]
                      /\ op' = "fetch"
                   \/ /\ files' = made
                      /\ ret' = [ret EXCEPT !.status = "exit(1)"]
                      /\ op' = "exit"
    /\ UNCHANGED <<arg, data_quality_logger, now>>
    /\ TelemetryKept

\* one cached step of main: regenerate the artifact from the payload and
\* write it, or read the existing file back
CachedStep(position, next_position, skipped, output_path, input_mtimes, field, derived) ==
    /\ op = position
    /\ IF skipped
       THEN UNCHANGED <<files, ret>>
       ELSE IF needs_update(files, output_path, input_mtimes)
       THEN /\ files' = log_record(write_file(files, output_path, derived, now), now)
            /\ ret' = [ret EXCEPT ![field] = derived,
                                  !.wrote = @ \cup {output_path}]
       ELSE /\ files' = log_record(files, now)
            /\ ret' = [ret EXCEPT ![field] = files[output_path].content,
                                  !.reused = @ \cup {output_path}]
    /\ op' = next_position
    /\ UNCHANGED <<arg, data_quality_logger, now, fetches>>
    /\ TelemetryKept

\* main, lines 237-247
Analyze ==
    CachedStep("fetch", "analyze", FALSE, "analysis", {files["data"].mtime},
               "analysis_payload", ret.data_payload)

\* main, lines 249-263
Valuation ==
    CachedStep("analyze", "valuation", arg.skip_valuation, "valuation",
               {files["data"].mtime, files["analysis"].mtime},
               "valuation_payload", ret.analysis_payload)

\* main, lines 265-277
Analyst ==
    CachedStep("valuation", "analyst", arg.skip_analyst, "analyst",
               {files["data"].mtime}, "analyst_payload", ret.data_payload)

\* main, lines 279-288
Charts ==
    /\ op = "analyst"
    /\ IF arg.skip_charts
       THEN UNCHANGED <<files, ret>>
       ELSE IF charts_need_update(files, "charts", files["analysis"].mtime)
       THEN /\ files' = log_record(write_file(files, "charts", ret.analysis_payload, now),
                                   now)
            /\ ret' = [ret EXCEPT !.wrote = @ \cup {"charts"}]
       ELSE /\ files' = log_record(files, now)
            /\ ret' = [ret EXCEPT !.reused = @ \cup {"charts"}]
    /\ op' = "charts"
    /\ UNCHANGED <<arg, data_quality_logger, now, fetches>>
    /\ TelemetryKept

report_inputs(fs, args) ==
    {fs["analysis"].mtime}
    \cup (IF ~args.skip_valuation /\ fs["valuation"].exists
          THEN {fs["valuation"].mtime} ELSE {})
    \cup (IF ~args.skip_analyst /\ fs["analyst"].exists
          THEN {fs["analyst"].mtime} ELSE {})

\* main, lines 290-337: the report step and the closing records
Report ==
    /\ op = "charts"
    /\ IF arg.skip_report
       THEN /\ files' = log_record(files, now)
            /\ ret' = [ret EXCEPT !.status = "returned"]
       ELSE IF needs_update(files, "report", report_inputs(files, arg))
       THEN /\ files' = log_record(write_file(files, "report", ret.analysis_payload, now),
                                   now)
            /\ ret' = [ret EXCEPT !.wrote = @ \cup {"report"}, !.status = "returned"]
       ELSE /\ files' = log_record(files, now)
            /\ ret' = [ret EXCEPT !.reused = @ \cup {"report"}, !.status = "returned"]
    /\ op' = "exit"
    /\ UNCHANGED <<arg, data_quality_logger, now, fetches>>
    /\ TelemetryKept

\* the clock of the file system moves on
Tick ==
    /\ now < MaxClock
    /\ now' = now + 1
    /\ UNCHANGED <<op, arg, ret, data_quality_logger, files, fetches>>
    /\ TelemetryKept

NextPipeline ==
    \/ StartRun
    \/ SetupLogging
    \/ DryRun
    \/ FetchOrUseCache
    \/ Analyze
    \/ Valuation
    \/ Analyst
    \/ Charts
    \/ Report
    \/ Tick

SpecPipeline == InitPipeline /\ [][NextPipeline]_vars

Running == op \in {"main", "setup_logging", "fetch", "analyze", "valuation", "analyst",
                   "charts"}

\* C23: a run_report invocation with --dry-run issues no fetch and creates
\* or modifies no file or directory, from process start to exit
C23_DryRunTouchesNothing ==
    [][(Running /\ arg.dry_run) => (files' = files /\ fetches' = fetches)]_vars

Artifacts == {"output_dir", "data", "analysis", "valuation", "analyst", "charts", "report"}

\* the part of C23 about the pipeline: a dry run issues no fetch and leaves
\* the output directory and every artifact in it as they were
C23_DryRunLeavesArtifacts ==
    [][(Running /\ arg.dry_run) =>
          /\ fetches' = fetches
          /\ \A p \in Artifacts : files'[p] = files[p]]_vars

\* the files a step's artifact is derived from
InputsOf(artifact) ==
    CASE artifact = "analysis" -> {"data"}
      [] artifact = "valuation" -> {"data", "analysis"}
      [] artifact = "analyst" -> {"data"}
      [] artifact = "charts" -> {"analysis"}
      [] artifact = "report" ->
            {"analysis"}
            \cup (IF ~arg.skip_valuation /\ files["valuation"].exists
                  THEN {"valuation"} ELSE {})
            \cup (IF ~arg.skip_analyst /\ files["analyst"].exists
                  THEN {"analyst"} ELSE {})
      [] OTHER -> {}

\* C27: no step of the pipeline reuses a stale artifact: in a run that
\* fetched and rewrote the data file no later step reads an existing
\* artifact back, and a step reads an existing artifact back only if it was
\* written after the latest write of each of its inputs, equal
\* modification times included
C27_NoStaleArtifactReused ==
    [][Running =>
          \A artifact \in ret'.reused \ ret.reused :
              /\ "data" \notin ret.wrote
              /\ \A input \in InputsOf(artifact) :
                    files[artifact].seq > files[input].seq]_vars

\* ---------------------------------------------------------------------
\* Daily multiples (build_valuation, lines 300-312)
\* ---------------------------------------------------------------------

\* the daily multiples of build_valuation: the fundamentals aligned to the
\* prices, then the four quotients
daily_multiples(prices, s) ==
    {[pe |-> valuation_divide_series(prices, eps_daily, TRUE),
      ps |-> valuation_divide_series(prices, sales_daily, TRUE),
      pb |-> valuation_divide_series(prices, book_daily, TRUE),
      ev_to_ebitda |->
          valuation_divide_series(add_series(prices, net_debt_daily), ebitda_daily,
                                  TRUE)] :
        eps_daily \in align_to_prices(s.eps_ttm, prices),
        sales_daily \in align_to_prices(s.sales_ttm, prices),
        ebitda_daily \in align_to_prices(s.ebitda_ttm, prices),
        book_daily \in align_to_prices(s.book_per_share, prices),
        net_debt_daily \in align_to_prices(s.net_debt_per_share, prices)}

FundamentalValues == {Fin(-2), Fin(0), Fin(2)}
NetDebtValues == {Fin(-1)}
DailyPrices == {Fin(4), Inf(1)}
MultipleGaps == {1, TodPerDay}

\* The per-share fundamentals share their snapshot dates and values; net
\* debt per share has its own values on the same dates
InitMultiples ==
    /\ op = "input"
    /\ \E n \in 0..MaxSnapshots, m \in 0..MaxPrices :
         \E fv \in [1..n -> FundamentalValues], nv \in [1..n -> NetDebtValues],
            sg \in [1..(n - 1) -> {TodPerDay}], ss \in {0, 1},
            pv \in [1..m -> DailyPrices], pg \in [1..(m - 1) -> MultipleGaps],
            ps \in {0, TodPerDay} :
             arg = [prices |-> SeriesFrom(ps, pv, pg),
                    snapshots |->
                        [eps_ttm |-> SeriesFrom(ss, fv, sg),
                         sales_ttm |-> SeriesFrom(ss, fv, sg),
                         ebitda_ttm |-> SeriesFrom(ss, fv, sg),
                         book_per_share |-> SeriesFrom(ss, fv, sg),
                         net_debt_per_share |-> SeriesFrom(ss, nv, sg)]]
    /\ ret = [pe |-> <<>>, ps |-> <<>>, pb |-> <<>>, ev_to_ebitda |-> <<>>]
    /\ TelemetryIdle

DailyMultiples ==
    /\ op = "input"
    /\ ret' \in daily_multiples(arg.prices, arg.snapshots)
    /\ op' = "daily_multiples"
    /\ UNCHANGED <<arg, data_quality_logger, fuzzy_matches, missing_fields, results,
                   validation_warnings, held_summary, files, now, fetches>>

NextMultiples == DailyMultiples

SpecMultiples == InitMultiples /\ [][NextMultiples]_vars

\* the as-of-aligned value of a snapshot series on the i-th price date
AlignedAt(snapshot, i) ==
    IF snapshot = <<>> THEN None
    ELSE asof_backward(snapshot, arg.prices[i].date.v)

PointsAt(frame, i) ==
    {j \in DOMAIN frame : frame[j].date = arg.prices[i].date}

\* the frame has exactly one point on the i-th price date, and its value is
\* the price divided by the aligned fundamental
HasQuotientAt(frame, snapshot, i) ==
    /\ Cardinality(PointsAt(frame, i)) = 1
    /\ \A j \in PointsAt(frame, i) :
          frame[j].value = Fin(Frac(arg.prices[i].value.v, AlignedAt(snapshot, i).v))

AllFinite(frame) == \A j \in DOMAIN frame : is_finite(frame[j].value)

PositiveOnly(frame, snapshot) ==
    /\ AllFinite(frame)
    /\ \A i \in DOMAIN arg.prices :
          IF is_finite(arg.prices[i].value) /\ AlignedAt(snapshot, i).k = "fin"
             /\ AlignedAt(snapshot, i).v > 0
          THEN HasQuotientAt(frame, snapshot, i)
          ELSE PointsAt(frame, i) = {}

NonZero(frame, snapshot) ==
    /\ AllFinite(frame)
    /\ \A i \in DOMAIN arg.prices :
          IF is_finite(arg.prices[i].value) /\ AlignedAt(snapshot, i).k = "fin"
             /\ AlignedAt(snapshot, i).v # 0
          THEN HasQuotientAt(frame, snapshot, i)
          ELSE PointsAt(frame, i) = {}

\* EV/EBITDA: points only where the aligned EBITDA per share is strictly
\* positive, each the price plus the aligned net debt per share over it
EvPositiveOnly ==
    /\ AllFinite(ret.ev_to_ebitda)
    /\ \A i \in DOMAIN arg.prices :
          IF is_finite(arg.prices[i].value)
             /\ AlignedAt(arg.snapshots.ebitda_ttm, i).k = "fin"
             /\ AlignedAt(arg.snapshots.ebitda_ttm, i).v > 0
             /\ AlignedAt(arg.snapshots.net_debt_per_share, i).k = "fin"
          THEN /\ Cardinality(PointsAt(ret.ev_to_ebitda, i)) = 1
               /\ \A j \in PointsAt(ret.ev_to_ebitda, i) :
                     ret.ev_to_ebitda[j].value
                        = Fin(Frac(arg.prices[i].value.v
                                      + AlignedAt(arg.snapshots.net_debt_per_share, i).v,
                                   AlignedAt(arg.snapshots.ebitda_ttm, i).v))
          ELSE PointsAt(ret.ev_to_ebitda, i) = {}

\* C24 as stated: P/E and EV/EBITDA have a point only on price dates whose
\* aligned denominator is strictly positive, P/S and P/B on every price
\* date whose aligned denominator is non-zero, negative ones included; each
\* point is the price over the aligned fundamental and is finite
C24_PsPbOnNonZeroDenominator ==
    op = "daily_multiples" =>
        /\ PositiveOnly(ret.pe, arg.snapshots.eps_ttm)
        /\ EvPositiveOnly
        /\ NonZero(ret.ps, arg.snapshots.sales_ttm)
        /\ NonZero(ret.pb, arg.snapshots.book_per_share)

\* C24, amended: each of P/E, P/S, P/B and EV/EBITDA has a point exactly on
\* the price dates whose aligned denominator is strictly positive (and, for
\* EV/EBITDA, whose aligned net debt per share is known); each point is the
\* numerator over the aligned fundamental and is finite
C24_AllMultiplesPositiveOnly ==
    op = "daily_multiples" =>
        /\ PositiveOnly(ret.pe, arg.snapshots.eps_ttm)
        /\ EvPositiveOnly
        /\ PositiveOnly(ret.ps, arg.snapshots.sales_ttm)
        /\ PositiveOnly(ret.pb, arg.snapshots.book_per_share)

\* C24 witness: on some price date the aligned book value per share is
\* negative and P/B has no point there, while on another price date it is
\* positive and P/B has the quotient
C24_Witness ==
    /\ op = "daily_multiples"
    /\ \E i \in DOMAIN arg.prices :
          /\ is_finite(arg.prices[i].value)
          /\ AlignedAt(arg.snapshots.book_per_share, i) = Fin(-2)
          /\ PointsAt(ret.pb, i) = {}
          /\ PointsAt(ret.ps, i) = {}
    /\ \E i \in DOMAIN arg.prices :
          /\ AlignedAt(arg.snapshots.book_per_share, i) = Fin(2)
          /\ PointsAt(ret.pb, i) # {}
          /\ PointsAt(ret.pe, i) # {}
          /\ PointsAt(ret.ev_to_ebitda, i) # {}

\* ---------------------------------------------------------------------
\* fetch_fx_rate (valuation.py)
\* ---------------------------------------------------------------------

\* What one yfinance lookup gives: it throws, its history has no Close
\* column, or it has the listed closes
Throws == [kind |-> "throws", values |-> <<>>]
NoClose == [kind |-> "no_close", values |-> <<>>]
Close(values) == [kind |-> "close", values |-> values]

\* the rate of one lookup without the inversion of the inverse pair
lookup_rate_not_inverted(outcome, invert) ==
    IF outcome.kind # "close" THEN None
    ELSE LET values == finite_rows([i \in DOMAIN outcome.values |->
                                       Row(None, outcome.values[i])])
         IN  IF values = <<>> THEN None
             ELSE IF values[Len(values)].value.v = 0 THEN None
             ELSE Fin(Frac(values[Len(values)].value.v, 1))

\* one turn of the loop of fetch_fx_rate: the rate it returns, None when it
\* goes on to the next pair
lookup_rate(outcome, invert) ==
    IF outcome.kind # "close" THEN None
    ELSE LET values == finite_rows([i \in DOMAIN outcome.values |->
                                       Row(None, outcome.values[i])])
         IN  IF values = <<>> THEN None
             ELSE IF values[Len(values)].value.v = 0 THEN None
             ELSE IF invert THEN Fin(Frac(1, values[Len(values)].value.v))
             ELSE Fin(Frac(values[Len(values)].value.v, 1))

MaxCloses == 2
CloseValues == {NaN, Fin(0), Fin(2)}
Currencies == {NoCurrency, "USD", "CNY"}

FxResult(rate, lookups, status) == [rate |-> rate, lookups |-> lookups, status |-> status]

InitFx ==
    /\ op = "input"
    /\ \E base \in Currencies, quote \in Currencies,
          dk \in {"throws", "no_close", "close"}, ik \in {"throws", "no_close", "close"},
          dn \in 0..MaxCloses, ic \in 0..MaxCloses :
         \E dv \in [1..dn -> CloseValues], iv \in [1..ic -> CloseValues] :
            /\ dk # "close" => dn = 0
            /\ ik # "close" => ic = 0
            /\ arg = [base |-> base, quote |-> quote,
                      lookups |-> <<[kind |-> dk, values |-> dv],
                                    [kind |-> ik, values |-> iv]>>]
    /\ ret = FxResult(None, 0, "running")
    /\ TelemetryIdle

FxKept ==
    UNCHANGED <<arg, data_quality_logger, fuzzy_matches, missing_fields, results,
                validation_warnings, held_summary, files, now, fetches>>

\* fetch_fx_rate, line 94: no lookup for a missing currency or equal ones
FxSameCurrency ==
    /\ op = "input"
    /\ arg.base = NoCurrency \/ arg.quote = NoCurrency \/ arg.base = arg.quote
    /\ ret' = FxResult(Fin(Frac(1, 1)), 0, "returned")
    /\ op' = "returned"
    /\ FxKept

\* fetch_fx_rate, lines 97-131: one turn of the loop, the direct pair first
FxLookup ==
    /\ op \in {"input", "lookup"}
    /\ ~(arg.base = NoCurrency \/ arg.quote = NoCurrency \/ arg.base = arg.quote)
    /\ ret.lookups < Len(arg.lookups)
    /\ LET rate == lookup_rate(arg.lookups[ret.lookups + 1], ret.lookups = 1)
       IN  IF rate # None
           THEN /\ ret' = FxResult(rate, ret.lookups + 1, "returned")
                /\ op' = "returned"
           ELSE /\ ret' = FxResult(None, ret.lookups + 1, "running")
                /\ op' = "lookup"
    /\ FxKept

\* fetch_fx_rate, lines 133-136: both pairs failed
FxFailed ==
    /\ op = "lookup"
    /\ ret.lookups = Len(arg.lookups)
    /\ ret' = FxResult(None, ret.lookups, "returned")
    /\ op' = "returned"
    /\ FxKept

NextFx == FxSameCurrency \/ FxLookup \/ FxFailed

SpecFx == InitFx /\ [][NextFx]_vars /\ WF_vars(NextFx)

\* the latest finite close of a lookup when it is not zero, as a set
UsableRate(outcome) ==
    IF outcome.kind # "close" THEN {}
    ELSE LET finite == {i \in DOMAIN outcome.values : is_finite(outcome.values[i])}
         IN  IF finite = {} THEN {}
             ELSE {outcome.values[i].v : i \in {j \in finite : \A l \in finite : l <= j}}
                  \ {0}

ExpectedFx ==
    IF arg.base = NoCurrency \/ arg.quote = NoCurrency \/ arg.base = arg.quote
    THEN FxResult(Fin(Frac(1, 1)), 0, "returned")
    ELSE IF UsableRate(arg.lookups[1]) # {}
    THEN FxResult(Fin(Frac(CHOOSE r \in UsableRate(arg.lookups[1]) : TRUE, 1)), 1,
                  "returned")
    ELSE IF UsableRate(arg.lookups[2]) # {}
    THEN FxResult(Fin(Frac(1, CHOOSE r \in UsableRate(arg.lookups[2]) : TRUE)), 2,
                  "returned")
    ELSE FxResult(None, 2, "returned")

C25_WitnessNone ==
    /\ op = "returned"
    /\ arg.lookups = <<NoClose, Close(<<Fin(2), Fin(0)>>)>>
    /\ ret = FxResult(None, 2, "returned")

\* ------------------------------------------------------------------
\* compute_average_balance: the mean of each point and its predecessor
\* ------------------------------------------------------------------

compute_average_balance_earlier_date(series) ==
    {IF Len(rows) < 2 THEN empty_series
     ELSE [k \in 1..(Len(rows) - 1) |->
              Row(rows[k].date,
                  Fin(Frac(rows[k].value.v + rows[k + 1].value.v, 2)))] :
     rows \in series_values(series)}

compute_average_balance(series) ==
    {IF Len(rows) < 2 THEN empty_series
     ELSE [k \in 1..(Len(rows) - 1) |->
              Row(rows[k + 1].date,
                  Fin(Frac(rows[k].value.v + rows[k + 1].value.v, 2)))] :
     rows \in series_values(series)}

\* Largest number of points of a balance series
MaxBalances == 4
BalanceValues == {Fin(-3), Fin(2), Inf(1)}
BalanceGaps == {0, TodPerDay}
InitAverage ==
    /\ op = "input"
    /\ \E n \in 0..MaxBalances :
           \E values \in [1..n -> BalanceValues],
              gaps \in [1..(n - 1) -> BalanceGaps] :
               arg = SortedSeries(values, gaps)
    /\ ret = None
    /\ TelemetryIdle

ComputeAverageBalance ==
    /\ op = "input"
    /\ op' = "compute_average_balance"
    /\ ret' \in compute_average_balance(arg)
    /\ UNCHANGED <<arg, data_quality_logger, fuzzy_matches, missing_fields, results,
                 validation_warnings, held_summary, files, now, fetches>>

NextAverage == ComputeAverageBalance

SpecAverage == InitAverage /\ [][NextAverage]_vars

\* C26: the average balance of a series of n points (the finite points of
\* the input, in date order) is empty when n < 2 and otherwise has exactly
\* n - 1 points, the one for the i-th input point (i >= 2) dated at that
\* point's date and holding half the sum of the values of points i-1 and i.
C26_AverageIsTwoPointMean ==
    op = "compute_average_balance" =>
        \E rows \in series_rows(arg) :
            LET n == Len(rows)
            IN  /\ n < 2 => ret = <<>>
                /\ n >= 2 =>
                       /\ Len(ret) = n - 1
                       /\ \A i \in 2..n :
                              /\ ret[i - 1].date = rows[i].date
                              /\ ret[i - 1].value.k = "fin"
                              /\ 2 * ret[i - 1].value.v.num =
                                     (rows[i - 1].value.v + rows[i].value.v)
                                     * ret[i - 1].value.v.den

\* C26's case: three finite points of distinct dates give two means that
\* differ, one of them not a whole number
C26_Witness ==
    /\ op = "compute_average_balance"
    /\ Len(arg) = 3
    /\ \A i \in 1..3 : is_finite(arg[i].value)
    /\ \A i \in 1..2 : arg[i].date.v < arg[i + 1].date.v
    /\ Len(ret) = 2
    /\ ret[1].value # ret[2].value
    /\ ret[1].value.v.den = 2

\* ------------------------------------------------------------------
\* DataQualityLogger: the three lists, their summary and reset
\* ------------------------------------------------------------------

\* A details argument: None, or a dict known by its keys
Details(dict_keys) == [k |-> "dict", v |-> dict_keys]
WarningEntry(message, details) == [message |-> message, details |-> details]

\* DataQualityLogger.log_validation_warning applied to the list
log_validation_warning(warnings, message, details) ==
    Append(warnings,
           WarningEntry(message, IF details.k = "none" \/ details.v = {}
                                 THEN Details({}) ELSE details))

\* The three list objects of a logger, by attribute name
logger_lists ==
    [fuzzy_matches |-> fuzzy_matches, missing_fields |-> missing_fields,
     validation_warnings |-> validation_warnings]

\* DataQualityLogger.get_summary: the counts are numbers, the details are
\* the list objects themselves, named here by the attribute that holds them.
DataQualityLogger_get_summary ==
    [fuzzy_matches |-> Len(fuzzy_matches),
     missing_fields |-> Len(missing_fields),
     validation_warnings |-> Len(validation_warnings),
     fuzzy_matches_detail |-> "fuzzy_matches",
     missing_fields_detail |-> "missing_fields",
     validation_warnings_detail |-> "validation_warnings"]

\* What a reader of a summary dict sees: the details through the lists
read_summary(s, lists) ==
    [fuzzy_matches |-> s.fuzzy_matches,
     missing_fields |-> s.missing_fields,
     validation_warnings |-> s.validation_warnings,
     fuzzy_matches_detail |-> lists[s.fuzzy_matches_detail],
     missing_fields_detail |-> lists[s.missing_fields_detail],
     validation_warnings_detail |-> lists[s.validation_warnings_detail]]

DataQualityLogger_reset_keeps_warnings(lists) ==
    [fuzzy_matches |-> <<>>, missing_fields |-> <<>>,
     validation_warnings |-> lists.validation_warnings]

\* DataQualityLogger.reset: each list is cleared in place
DataQualityLogger_reset(lists) ==
    [fuzzy_matches |-> <<>>, missing_fields |-> <<>>, validation_warnings |-> <<>>]

\* Largest number of calls made on one logger
MaxLogged == 4
LoggedFields == {"revenue", "net_income"}
LoggedDetails == {None, Details({}), Details({"date"})}

Call(method, entry) == [call |-> method, entry |-> entry]

\* a logger fresh from __init__; arg keeps the calls made on it
InitLogger ==
    /\ op = "input"
    /\ arg = <<>>
    /\ ret = None
    /\ TelemetryConfigured

LogFuzzyMatch ==
    /\ Len(arg) < MaxLogged
    /\ \E field \in LoggedFields :
           LET entry == FuzzyEntry(field, "Total Revenue", Frac(1, 2))
           IN  /\ fuzzy_matches' =
                      log_fuzzy_match(fuzzy_matches,
                                      Resolution(TRUE, "Total Revenue", 3, "fuzzy", entry))
               /\ arg' = Append(arg, Call("log_fuzzy_match", entry))
    /\ op' = "log_fuzzy_match"
    /\ UNCHANGED <<ret, data_quality_logger, missing_fields, results,
                 validation_warnings, held_summary, files, now, fetches>>

LogMissingField ==
    /\ Len(arg) < MaxLogged
    /\ LET entry == MissingEntry("net_income", "")
       IN  /\ missing_fields' =
                  log_missing_field(missing_fields,
                                    Resolution(FALSE, "", 0, "missing", entry))
           /\ arg' = Append(arg, Call("log_missing_field", entry))
    /\ op' = "log_missing_field"
    /\ UNCHANGED <<ret, data_quality_logger, fuzzy_matches, results,
                 validation_warnings, held_summary, files, now, fetches>>

LogValidationWarning ==
    /\ Len(arg) < MaxLogged
    /\ \E details \in LoggedDetails :
           /\ validation_warnings' =
                  log_validation_warning(validation_warnings, "gap", details)
           /\ arg' = Append(arg, Call("log_validation_warning",
                                      WarningEntry("gap", details)))
    /\ op' = "log_validation_warning"
    /\ UNCHANGED <<ret, data_quality_logger, fuzzy_matches, missing_fields, results,
                 held_summary, files, now, fetches>>

LoggerReset ==
    /\ Len(arg) < MaxLogged
    /\ LET cleared == DataQualityLogger_reset(logger_lists)
       IN  /\ fuzzy_matches' = cleared.fuzzy_matches
           /\ missing_fields' = cleared.missing_fields
           /\ validation_warnings' = cleared.validation_warnings
    /\ arg' = Append(arg, Call("reset", NoEntry))
    /\ op' = "reset"
    /\ UNCHANGED <<ret, data_quality_logger, results, held_summary, files, now,
                 fetches>>

\* get_summary returns; the caller keeps the dict and reads it at once
LoggerGetSummary ==
    /\ Len(arg) < MaxLogged
    /\ held_summary' = DataQualityLogger_get_summary
    /\ ret' = read_summary(DataQualityLogger_get_summary, logger_lists)
    /\ arg' = Append(arg, Call("get_summary", NoEntry))
    /\ op' = "get_summary"
    /\ UNCHANGED <<data_quality_logger, fuzzy_matches, missing_fields, results,
                 validation_warnings, files, now, fetches>>

NextLogger ==
    \/ LogFuzzyMatch
    \/ LogMissingField
    \/ LogValidationWarning
    \/ LoggerReset
    \/ LoggerGetSummary

SpecLogger == InitLogger /\ [][NextLogger]_vars

\* C28 as stated: a summary dict that get_summary has returned reads the
\* same, counts and detail lists alike, after every later log or reset
\* call on the logger.
C28_SummaryIsSnapshot ==
    [][(held_summary # None /\ op' # "get_summary")
          => read_summary(held_summary, logger_lists)'
               = read_summary(held_summary, logger_lists)]_vars

\* C28, the part the code keeps: the three counts of a returned summary
\* stay as returned
C28_SummaryCountsAreSnapshot ==
    [][(held_summary # None /\ op' # "get_summary")
          => /\ held_summary'.fuzzy_matches = held_summary.fuzzy_matches
             /\ held_summary'.missing_fields = held_summary.missing_fields
             /\ held_summary'.validation_warnings
                    = held_summary.validation_warnings]_vars

\* The calls made after the most recent reset, oldest first
RECURSIVE since_reset(_)
since_reset(calls) ==
    IF calls = <<>> THEN <<>>
    ELSE LET last == calls[Len(calls)]
             earlier == SubSeq(calls, 1, Len(calls) - 1)
         IN  IF last.call = "reset" THEN <<>>
             ELSE Append(since_reset(earlier), last)

\* The entries that the calls of one method handed over, in call order
RECURSIVE entries_of(_, _)
entries_of(calls, method) ==
    IF calls = <<>> THEN <<>>
    ELSE IF Head(calls).call = method
         THEN <<Head(calls).entry>> \o entries_of(Tail(calls), method)
         ELSE entries_of(Tail(calls), method)

\* log_validation_warning stores an empty dict for a missing or empty details
stored_warning(entry) ==
    WarningEntry(entry.message,
                 IF entry.details.k = "none" THEN Details({}) ELSE entry.details)

\* C30: a summary reports, for each kind, as many issues as log calls of
\* that kind were made since the most recent reset (or since creation), as
\* many as its detail list holds, the details being those calls' entries in
\* call order; right after reset a summary would report three zeros.
C30_SummaryCountsCallsSinceReset ==
    /\ op = "get_summary" =>
           LET calls == since_reset(arg)
               fuzzy == entries_of(calls, "log_fuzzy_match")
               missing == entries_of(calls, "log_missing_field")
               warnings == entries_of(calls, "log_validation_warning")
           IN  /\ ret.fuzzy_matches = Len(fuzzy)
               /\ ret.missing_fields = Len(missing)
               /\ ret.validation_warnings = Len(warnings)
               /\ ret.fuzzy_matches = Len(ret.fuzzy_matches_detail)
               /\ ret.missing_fields = Len(ret.missing_fields_detail)
               /\ ret.validation_warnings = Len(ret.validation_warnings_detail)
               /\ ret.fuzzy_matches_detail = fuzzy
               /\ ret.missing_fields_detail = missing
               /\ ret.validation_warnings_detail
                      = [i \in 1..Len(warnings) |-> stored_warning(warnings[i])]
    /\ op = "reset" =>
           /\ DataQualityLogger_get_summary.fuzzy_matches = 0
           /\ DataQualityLogger_get_summary.missing_fields = 0
           /\ DataQualityLogger_get_summary.validation_warnings = 0

\* C30's case: a warning logged, a reset, a fuzzy match logged, and a
\* summary that counts the fuzzy match alone
C30_Witness ==
    /\ op = "get_summary"
    /\ Len(arg) = 4
    /\ arg[1].call = "log_validation_warning"
    /\ arg[2].call = "reset"
    /\ arg[3].call = "log_fuzzy_match"
    /\ ret.fuzzy_matches = 1
    /\ ret.validation_warnings = 0

\* C30's case: two warnings with different details, in call order
C30_WitnessOrder ==
    /\ op = "get_summary"
    /\ ret.validation_warnings = 2
    /\ ret.validation_warnings_detail[1].details = Details({})
    /\ ret.validation_warnings_detail[2].details = Details({"date"})

\* ------------------------------------------------------------------
\* Row-major extraction: one row key for the whole statement
\* ------------------------------------------------------------------

RowMajor(statement) == statement # <<>> /\ ~has_key(statement, DateField)

\* The periods of a row-major statement that give a point for a row key:
\* a row map holding a parseable value under it, at a date that parses
Holding(statement, row_key) ==
    {i \in DOMAIN statement :
        /\ is_dict_entry(statement[i])
        /\ parse_datetime(statement[i].key) # None
        /\ has_key(statement[i].value.items, row_key)
        /\ to_float(get(statement[i].value.items, row_key)) # None}

\* C29: in the row-major orientation the metric is resolved once, against
\* the row keys of all periods together; the series has one point for each
\* period whose row map holds a parseable value under the resolved key, at
\* that period's date with that value, and no other point: a period that
\* holds the metric under another acceptable label only gives none.
C29_OneRowKeyForWholeStatement ==
    (Extracted /\ RowMajor(arg.statement)) =>
        LET r == find_matching_row_key(arg.statement, arg.candidates)
        IN  /\ ~r.found => ret = empty_series
            /\ r.found =>
                   /\ r.key \in Range(all_row_keys(arg.statement))
                   /\ LET holding == Holding(arg.statement, r.key)
                      IN  /\ Len(ret) = Cardinality(holding)
                          /\ \E f \in [DOMAIN ret -> holding] :
                                 /\ \A i, j \in DOMAIN ret : f[i] = f[j] => i = j
                                 /\ \A i \in DOMAIN ret :
                                        /\ parse_datetime(arg.statement[f[i]].key)
                                               = ret[i].date
                                        /\ to_float(get(arg.statement[f[i]].value.items,
                                                        r.key)) = ret[i].value

\* C29's case: two periods of parseable dates, one holding the resolved key
\* and the other holding the metric under another acceptable label only;
\* the series has the first period's point alone
C29_Witness ==
    /\ Extracted
    /\ RowMajor(arg.statement)
    /\ Len(arg.statement) = 2
    /\ Len(ret) = 1
    /\ LET r == find_matching_row_key(arg.statement, arg.candidates)
       IN  /\ r.found
           /\ \E i, j \in DOMAIN arg.statement :
                  /\ i \in Holding(arg.statement, r.key)
                  /\ is_dict_entry(arg.statement[j])
                  /\ parse_datetime(arg.statement[j].key) # None
                  /\ ~has_key(arg.statement[j].value.items, r.key)
                  /\ \E label \in StatementLabels :
                         /\ MatchesCandidate(label, arg.candidates)
                         /\ j \in Holding(arg.statement, label)

====
